---- MODULE Spec2Model ----
(***************************************************************************)
(* Model of the vrsc-arb arbitrage pipeline:                               *)
(*   BalanceManager   (balances, reservations, reservation timers)         *)
(*   CircuitBreaker   (per-venue breaker state machine)                    *)
(*   OrderManager     (orders, order timeouts)                             *)
(*   AtomicExecutor   (staged two-leg execution)                           *)
(*   TradeExecutor    (single-flight two-leg execution)                    *)
(*   HeartbeatManager (ping/pong monitoring of a connection)               *)
(*   WebSocketManager (reconnection with backoff)                          *)
(*   RateLimiter      (queued calls with retries and error backoff)        *)
(*   ArbitrageDetector, PriceValidator, TradeOgre (price feeds)            *)
(* Money amounts are decimal.js values in the source; the model uses       *)
(* integers, on which decimal.js arithmetic is exact.  Strings that the    *)
(* code concatenates or compares by prefix are sequences of characters.    *)
(***************************************************************************)
EXTENDS Integers, Sequences, FiniteSets, TLC

(***************************************************************************)
(* Bounds of the model.                                                    *)
(***************************************************************************)
TimeStep == 15000
MaxNow == 75000
MaxFailures == 6
MaxTimers == 2
MaxSuccesses == 4
MaxTradeCalls == 2
MaxOrderUpdates == 3
MaxBeatNow == 45000
MaxSockets == 4
MaxSocketNow == 40000
MaxCalls == 3
LimiterStep == 150000
MaxLimiterNow == 450000
DetectorStep == 5000
MaxDetectorNow == 10000
OgreStep == 30000
MaxOgreNow == 90000
MaxOgreTicks == 3
FeedStep == 15000
MaxFeedNow == 30000
MaxMessages == 3
MaxSettlements == 2
MaxPositionCalls == 4
MaxFailedRequests == 2
MaxConnectorSockets == 2
MaxOperations == 3
RqStep == 5000
MaxRqNow == 40000
FetchStep == 5000
MaxFetches == 2
MaxLatency == 0
MaxCallers == 3
MaxHealthSuccesses == 5
MaxHealthErrors == 7
MaxPoolObjects == 3
PoolStep == 200000
MaxPoolNow == 400000
MaxFetchNow == 140000
MaxFetchFailures == 7

(***************************************************************************)
(* Program constants.                                                      *)
(***************************************************************************)
reserveTimeoutMs == 30000
failureThreshold == 5
resetTimeout == 60000
minOrderSize == 10
maxOrderSize == 1000
checkInterval == 5000
maxMissedBeats == 3
timeout == 30000
maxReconnectAttempts == 5
reconnectDelay == 5000
backoffTime == 300000
retries == 3
maxAge == 5000
priceValidityMs == 30000
maxStalePrice == 300000
btcUpdateInterval == 60000
retryAttempts == 3
retryDelay == 5000
requestTimeout == 30000
priceCacheMs == 5000
maxIdleTime == 300000
errorThreshold == 5
recoveryThreshold == 3
maxTotalExposure == 5000
maxDailyExposure == 10000
maxLoss == 100
maxDailyLoss == 500
maxDrawdown == 20
minPositionSize == 10
maxPositionSize == 1000
maxSlippage == 3
minLiquidity == 10000

Max(a, b) == IF a >= b THEN a ELSE b
Min(a, b) == IF a <= b THEN a ELSE b

VARIABLES
    now,                \* Date.now(), in milliseconds
    balances,           \* BalanceManager.balances: key -> total
    reservedBalances,   \* BalanceManager.reservedBalances: reserveKey -> record
    reserveTimers,      \* pending setTimeout callbacks of _setReserveTimeout
    reservedFor,        \* history: reserveKey -> the key the reservation was made for
    lastReserve,        \* history: the reserve that was the last mutation, if any
    monitors,           \* CircuitBreaker.monitors: name -> monitor
    cbFails,            \* history: failures reported in a row since closed/no failures
    cbSucc,             \* history: successes reported in a row since half-open
    cbVia,              \* history: the operation that last changed the breaker state
    engine,             \* which executor the program runs: "atomic" or "trade"
    health,             \* AtomicExecutor.healthMonitor.health: exchange -> status
    orders,             \* OrderManager.orders, in creation order (id = index)
    orderTimeouts,      \* pending setTimeout callbacks of _setOrderTimeout
    queues,             \* RequestQueue.queues: exchange -> waiting operations
    timeouts,           \* ExecutionTimer.timeouts: executionId -> execution
    timerCallbacks,     \* pending setTimeout callbacks of ExecutionTimer
    events,             \* events emitted by the executors and their timer
    createCalls,        \* history: createOrder calls per execution and side
    atomic,             \* AtomicExecutor: the executeArbitrage calls in progress
    trade,              \* TradeExecutor: isExecuting and the call in progress
    orderUpdates,       \* number of status reports and cancellations from outside
    heartbeat,          \* HeartbeatManager: the monitored connection and its timers
    wsm,                \* WebSocketManager: one exchange's sockets, timers, breaker
    limiter,            \* RateLimiter: one exchange's errors, queue and running call
    detector,           \* ArbitrageDetector: its config and its last detectArbitrage
    ogre,               \* TradeOgre: the bridge rate, its price cache and the last tick
    feed,               \* WebSocketManager: price messages of one exchange's socket
    checks,             \* the last pre-trade price check and each component's verdict
    depth,              \* MarketDepthAnalyzer: the last analyzeDepth call and its result
    settle,             \* SettlementManager: settlements, the one in progress, events
    positionManager,    \* PositionManager: config, positions, the last call and its events
    app,                \* the process of index.js: phase, exit, registered connectors
    requestQueue,       \* RequestQueue: the operations enqueued per exchange
    fetcher,            \* BaseExchange: its breaker monitor, price cache and last fetchPrice
    pool,               \* ConnectionPool and the callers of acquire
    healthMonitor,      \* ExchangeHealthMonitor: status and metrics per venue
    riskLimits          \* RiskLimits: metrics and the breaches of the last update

balVars == <<balances, reservedBalances, reserveTimers, reservedFor, lastReserve>>
cbVars == <<monitors, cbFails, cbSucc, cbVia>>
omVars == <<orders, orderTimeouts, queues, timeouts, timerCallbacks, events, createCalls>>
exVars == <<engine, health, omVars, atomic, trade, orderUpdates>>
tailVars == <<fetcher, pool, healthMonitor, riskLimits>>
headVars ==
    <<balVars, cbVars, exVars, heartbeat, wsm, limiter, detector, ogre, feed, checks, depth,
      settle, positionManager, app, requestQueue>>
lateVars == <<positionManager, app, requestQueue, tailVars>>
appVars == <<ogre, feed, checks, depth, settle, lateVars>>
netVars == <<heartbeat, wsm, limiter, detector, appVars>>
vars == <<now, balVars, cbVars, exVars, netVars>>

(***************************************************************************)
(* Strings.                                                                *)
(***************************************************************************)
LowerChar(c) ==
    CASE c = "S" -> "s" [] c = "T" -> "t" [] c = "U" -> "u" [] c = "D" -> "d"
      [] OTHER -> c
UpperChar(c) ==
    CASE c = "s" -> "S" [] c = "t" -> "T" [] c = "u" -> "U" [] c = "d" -> "D"
      [] OTHER -> c
toLowerCase(s) == [i \in 1..Len(s) |-> LowerChar(s[i])]
toUpperCase(s) == [i \in 1..Len(s) |-> UpperChar(s[i])]
startsWith(s, p) == Len(p) <= Len(s) /\ SubSeq(s, 1, Len(p)) = p

(***************************************************************************)
(* BalanceManager.                                                         *)
(***************************************************************************)
Exchanges == { <<"S">>, <<"t">> }
Currencies == { <<"U", "S", "D">>, <<"u", "s", "d", "t">> }
OrderIds == { <<"1">>, <<"2">> }
BalanceAmounts == { -1, 3 }
ReserveAmounts == { -1, 1, 2 }

_getKey(exchange, currency) ==
    toLowerCase(exchange) \o <<"_">> \o toUpperCase(currency)

reserveKeyOf(exchange, currency, orderId) ==
    _getKey(exchange, currency) \o <<"_">> \o orderId

RECURSIVE SumAmounts(_, _)
SumAmounts(res, keys) ==
    IF keys = {} THEN 0
    ELSE LET k == CHOOSE x \in keys : TRUE
         IN res[k].amount + SumAmounts(res, keys \ {k})

getBalance(exchange, currency) ==
    LET key == _getKey(exchange, currency)
    IN IF key \in DOMAIN balances THEN balances[key] ELSE 0

getReservedBalanceIn(res, exchange, currency) ==
    LET key == _getKey(exchange, currency)
    IN SumAmounts(res, { rk \in DOMAIN res : startsWith(rk, key) })

getReservedBalance(exchange, currency) ==
    getReservedBalanceIn(reservedBalances, exchange, currency)

getAvailableBalance(exchange, currency) ==
    Max(getBalance(exchange, currency) - getReservedBalance(exchange, currency), 0)

\* No reserve is the last mutation: no reserveKey is empty.
NoReserve == [reserveKey |-> << >>, before |-> 0]

MapSet(m, k, v) == [x \in DOMAIN m \cup {k} |-> IF x = k THEN v ELSE m[x]]
MapDelete(m, k) == [x \in DOMAIN m \ {k} |-> m[x]]

updateBalance(exchange, currency, amount) ==
    /\ IF amount < 0
       THEN UNCHANGED <<balances, lastReserve>>
       ELSE /\ balances' = MapSet(balances, _getKey(exchange, currency), amount)
            /\ lastReserve' = NoReserve
    /\ UNCHANGED <<now, reservedBalances, reserveTimers, reservedFor, cbVars, netVars, exVars>>

reserveBalance(exchange, currency, amount, orderId) ==
    LET reserveKey == reserveKeyOf(exchange, currency, orderId)
    IN /\ Len(reserveTimers) < MaxTimers
       /\ IF getAvailableBalance(exchange, currency) < amount
          THEN UNCHANGED <<reservedBalances, reserveTimers, reservedFor, lastReserve>>
          ELSE /\ reservedBalances' =
                    MapSet(reservedBalances, reserveKey,
                           [amount |-> amount, timestamp |-> now])
               /\ reservedFor' =
                    MapSet(reservedFor, reserveKey, _getKey(exchange, currency))
               /\ reserveTimers' =
                    Append(reserveTimers,
                           [reserveKey |-> reserveKey, due |-> now + reserveTimeoutMs])
               /\ lastReserve' =
                    [reserveKey |-> reserveKey,
                     before |-> getAvailableBalance(exchange, currency)]
       /\ UNCHANGED <<now, balances, cbVars, netVars, exVars>>

releaseBalance(exchange, currency, orderId) ==
    LET reserveKey == reserveKeyOf(exchange, currency, orderId)
    IN /\ IF reserveKey \notin DOMAIN reservedBalances
          THEN UNCHANGED <<reservedBalances, reservedFor, lastReserve>>
          ELSE /\ reservedBalances' = MapDelete(reservedBalances, reserveKey)
               /\ reservedFor' = MapDelete(reservedFor, reserveKey)
               /\ lastReserve' = NoReserve
       /\ UNCHANGED <<now, balances, reserveTimers, cbVars, netVars, exVars>>

\* The callback of _setReserveTimeout: timers of one delay fire in creation order.
_setReserveTimeout ==
    /\ reserveTimers # <<>>
    /\ Head(reserveTimers).due <= now
    /\ LET reserveKey == Head(reserveTimers).reserveKey
       IN IF reserveKey \in DOMAIN reservedBalances
          THEN /\ reservedBalances' = MapDelete(reservedBalances, reserveKey)
               /\ reservedFor' = MapDelete(reservedFor, reserveKey)
               /\ lastReserve' = NoReserve
          ELSE UNCHANGED <<reservedBalances, reservedFor, lastReserve>>
    /\ reserveTimers' = Tail(reserveTimers)
    /\ UNCHANGED <<now, balances, cbVars, netVars, exVars>>

\* Time passes, never past a timer that is due.
Tick ==
    /\ now + TimeStep <= MaxNow
    /\ ~heartbeat.monitored
    /\ reserveTimers # <<>> => Head(reserveTimers).due > now
    /\ now' = IF reserveTimers # <<>>
              THEN Min(now + TimeStep, Head(reserveTimers).due)
              ELSE now + TimeStep
    /\ UNCHANGED <<balVars, cbVars, netVars, exVars>>

(***************************************************************************)
(* CircuitBreaker.                                                         *)
(***************************************************************************)
BreakerNames == { "safetrade", "tradeogre" }

NewMonitor ==
    [failures |-> 0, state |-> "closed", lastFailure |-> 0, consecutiveSuccesses |-> 0]

_getMonitor(name) == IF name \in DOMAIN monitors THEN monitors[name] ELSE NewMonitor

_transitionToOpen(monitor) == [monitor EXCEPT !.state = "open"]

_transitionToHalfOpen(monitor) ==
    [monitor EXCEPT !.state = "half-open", !.consecutiveSuccesses = 0]

_transitionToClosed(monitor) ==
    [monitor EXCEPT !.state = "closed", !.failures = 0, !.consecutiveSuccesses = 0]

\* isOpen: the monitor after the call (its return value is state = "open" after it).
isOpen_anyState(monitor, t) ==
    IF t - monitor.lastFailure > resetTimeout
    THEN _transitionToHalfOpen(monitor)
    ELSE monitor

isOpen(monitor, t) ==
    IF monitor.state = "open" /\ t - monitor.lastFailure > resetTimeout
    THEN _transitionToHalfOpen(monitor)
    ELSE monitor

onSuccess(monitor) ==
    LET m == [monitor EXCEPT !.failures = 0]
    IN IF m.state = "half-open" THEN _transitionToClosed(m) ELSE m

onError_above(monitor, t) ==
    LET m == [monitor EXCEPT !.failures = @ + 1, !.lastFailure = t]
    IN IF m.failures > failureThreshold THEN _transitionToOpen(m) ELSE m

onError(monitor, t) ==
    LET m == [monitor EXCEPT !.failures = @ + 1, !.lastFailure = t]
    IN IF m.failures >= failureThreshold THEN _transitionToOpen(m) ELSE m

\* History bookkeeping shared by the breaker actions.
Fresh(m) == m.state = "closed" /\ m.failures = 0
StateOf(name) == _getMonitor(name).state

CbStep(name, m, op) ==
    /\ monitors' = MapSet(monitors, name, m)
    /\ cbVia' = IF m.state # StateOf(name) THEN [cbVia EXCEPT ![name] = op] ELSE cbVia
    /\ cbFails' = [cbFails EXCEPT ![name] =
                     IF op = "onError" /\ @ >= 0 THEN @ + 1
                     ELSE IF op = "isOpen" /\ m.state = StateOf(name) THEN @
                     ELSE IF Fresh(m) THEN 0 ELSE -1]
    /\ cbSucc' = [cbSucc EXCEPT ![name] =
                     IF op = "onSuccess" THEN @ + 1
                     ELSE IF op = "isOpen" /\ m.state = StateOf(name) THEN @
                     ELSE 0]
    /\ UNCHANGED <<now, balVars, netVars, exVars>>

IsOpen(name) == CbStep(name, isOpen(_getMonitor(name), now), "isOpen")

OnSuccess(name) ==
    /\ cbSucc[name] < MaxSuccesses
    /\ CbStep(name, onSuccess(_getMonitor(name)), "onSuccess")

OnError(name) ==
    /\ _getMonitor(name).failures < MaxFailures
    /\ CbStep(name, onError(_getMonitor(name), now), "onError")

reset(name) ==
    /\ name \in DOMAIN monitors
    /\ CbStep(name, _transitionToClosed(monitors[name]), "reset")

(***************************************************************************)
(* Values shared by the executors.                                         *)
(***************************************************************************)
Null == "null"
USDT == <<"U", "S", "D", "T">>
VRSC == <<"V", "R", "S", "C">>
Abs(x) == IF x < 0 THEN 0 - x ELSE x

\* A null price: JavaScript arithmetic counts null as 0, and !price holds of
\* null and of 0 alike, so a null answer of the feed is the number 0.
NullPrice == 0
\* createOrder's null: order ids start at 1.
NoOrder == 0

\* n / d > a / b and n / d < a / b as JavaScript numbers compare them (b > 0):
\* a zero divisor gives NaN (n = 0), +Infinity (n > 0) or -Infinity (n < 0).
FracGT(n, d, a, b) ==
    IF d > 0 THEN n * b > a * d ELSE IF d < 0 THEN n * b < a * d ELSE n > 0
FracLT(n, d, a, b) ==
    IF d > 0 THEN n * b < a * d ELSE IF d < 0 THEN n * b > a * d ELSE n < 0

ExecExchanges == { <<"S">>, <<"t">> }

\* The executeArbitrage calls of AtomicExecutor that may overlap.
ExecutionIds == { 1, 2 }

Opportunities ==
    { [buyExchange |-> <<"S">>, sellExchange |-> <<"t">>, buyPrice |-> 2,
       sellPrice |-> 3, position |-> [vrscAmount |-> 10, usdtAmount |-> 20]],
      [buyExchange |-> <<"S">>, sellExchange |-> <<"t">>, buyPrice |-> 2,
       sellPrice |-> 101, position |-> [vrscAmount |-> 10, usdtAmount |-> 20]],
      [buyExchange |-> <<"S">>, sellExchange |-> <<"t">>, buyPrice |-> 2,
       sellPrice |-> 3, position |-> [vrscAmount |-> 1, usdtAmount |-> 2]] }

\* What the price feed answers: the shipped _fetchPrice and _getCurrentPrice
\* answer null; a feed plugged in answers a price.
FeedPrices == { NullPrice, 2, 3, 101 }

StatusUpdates == { "partial", "filled", "cancelled" }

Stages == { "validation", "buyOrder", "sellOrder", "settlement" }

CallKeys ==
    ((({"atomic"} \X ExecutionIds) \cup ({"trade"} \X (1..MaxTradeCalls)))
        \X {"buy", "sell"})

\* The mutable collaborators of an executor, threaded through one handler.
World ==
    [orders |-> orders, orderTimeouts |-> orderTimeouts, queues |-> queues,
     timeouts |-> timeouts, timerCallbacks |-> timerCallbacks, events |-> events,
     createCalls |-> createCalls]

Commit(w) ==
    /\ orders' = w.orders
    /\ orderTimeouts' = w.orderTimeouts
    /\ queues' = w.queues
    /\ timeouts' = w.timeouts
    /\ timerCallbacks' = w.timerCallbacks
    /\ events' = w.events
    /\ createCalls' = w.createCalls

emit(w, event) == [w EXCEPT !.events = @ \cup {event}]

(***************************************************************************)
(* OrderManager.                                                           *)
(***************************************************************************)
_validateOrderParams(params) ==
    LET orderValue == params.amount * params.price
    IN orderValue >= minOrderSize /\ orderValue <= maxOrderSize

\* createOrder: the world after the call and the order's id (NoOrder: null).
\* params.by names the calling execution, for the history of calls only.
createOrder(w, params) ==
    LET counted == [w EXCEPT !.createCalls[<<params.by, params.side>>] = @ + 1]
        id == Len(w.orders) + 1
        order == [id |-> id, exchange |-> params.exchange, side |-> params.side,
                  amount |-> params.amount, price |-> params.price,
                  status |-> "pending"]
    IN IF ~_validateOrderParams(params)
       THEN [w |-> counted, order |-> NoOrder]
       ELSE [w |-> [counted EXCEPT !.orders = Append(@, order),
                                   !.orderTimeouts = Append(@, id)],
             order |-> id]

cancelOrder(w, orderId) ==
    IF orderId \notin 1..Len(w.orders) THEN w
    ELSE [w EXCEPT !.orders[orderId].status = "cancelled"]

getOrderStatus(w, orderId) ==
    IF orderId = NoOrder THEN "none" ELSE w.orders[orderId].status

\* Orders carry no totalCost: createOrder and updateOrderStatus never set one.
totalCostOf(w, orderId) == Null

updateOrderStatus(orderId, status) ==
    /\ orderUpdates < MaxOrderUpdates
    /\ orderId \in 1..Len(orders)
    /\ orders' = [orders EXCEPT ![orderId].status = status]
    /\ orderUpdates' = orderUpdates + 1
    /\ UNCHANGED <<now, balVars, cbVars, netVars, engine, health, orderTimeouts, queues,
                   timeouts, timerCallbacks, events, createCalls, atomic, trade>>

CancelOrder(orderId) ==
    /\ orderUpdates < MaxOrderUpdates
    /\ orderId \in 1..Len(orders)
    /\ Commit(cancelOrder(World, orderId))
    /\ orderUpdates' = orderUpdates + 1
    /\ UNCHANGED <<now, balVars, cbVars, netVars, engine, health, atomic, trade>>

\* The callback of _setOrderTimeout: timers of one delay fire in creation order.
_setOrderTimeout ==
    /\ orderTimeouts # << >>
    /\ LET orderId == Head(orderTimeouts)
           w == [World EXCEPT !.orderTimeouts = Tail(@)]
       IN Commit(IF w.orders[orderId].status = "pending"
                 THEN cancelOrder(w, orderId) ELSE w)
    /\ UNCHANGED <<now, balVars, cbVars, netVars, engine, health, atomic, trade, orderUpdates>>

(***************************************************************************)
(* RequestQueue and ExecutionTimer.                                        *)
(***************************************************************************)
enqueue(w, exchange, operation) ==
    [w EXCEPT !.queues[exchange] = Append(@, operation)]

startExecution(w, executionId) ==
    [w EXCEPT !.timeouts = MapSet(@, executionId, [s \in Stages |-> "pending"]),
              !.timerCallbacks =
                  @ \cup {<<executionId, "execution">>, <<executionId, "warning">>}]

startStage(w, executionId, stage) ==
    IF executionId \notin DOMAIN w.timeouts THEN w
    ELSE [w EXCEPT !.timeouts[executionId][stage] = "running",
                   !.timerCallbacks = @ \cup {<<executionId, stage>>}]

_checkExecutionProgress(w, executionId, isWarning) ==
    IF executionId \notin DOMAIN w.timeouts THEN w
    ELSE LET complete == \A s \in Stages : w.timeouts[executionId][s] = "completed"
         IN IF isWarning /\ ~complete
            THEN emit(w, [type |-> "executionWarning", executionId |-> executionId])
            ELSE IF complete
            THEN [emit(w, [type |-> "executionComplete", executionId |-> executionId])
                    EXCEPT !.timeouts = MapDelete(@, executionId)]
            ELSE w

completeStage(w, executionId, stage) ==
    IF executionId \notin DOMAIN w.timeouts THEN w
    ELSE _checkExecutionProgress(
             [w EXCEPT !.timeouts[executionId][stage] = "completed"],
             executionId, FALSE)

clearExecution(w, executionId) ==
    [w EXCEPT !.timeouts = MapDelete(@, executionId)]

\* The callback of the timer that _setExecutionTimeout sets for settlementTimeout.
_setExecutionTimeout(w, executionId) ==
    IF executionId \notin DOMAIN w.timeouts THEN w
    ELSE IF \E s \in Stages : w.timeouts[executionId][s] # "completed"
    THEN emit(w, [type |-> "executionTimeout", executionId |-> executionId])
    ELSE w

\* The callback of the timer that _setStageTimeout sets for orderTimeout.
_setStageTimeout(w, executionId, stage) ==
    IF executionId \notin DOMAIN w.timeouts THEN w
    ELSE IF w.timeouts[executionId][stage] = "running"
    THEN emit(w, [type |-> "stageTimeout", executionId |-> executionId,
                  stage |-> stage])
    ELSE w

TimerKinds == Stages \cup {"warning", "execution"}

TimerCallback(w, executionId, kind) ==
    CASE kind = "execution" -> _setExecutionTimeout(w, executionId)
      [] kind = "warning" -> _checkExecutionProgress(w, executionId, TRUE)
      [] OTHER -> _setStageTimeout(w, executionId, kind)

\* The stages in the order executeArbitrage starts them.
StageOrder == <<"validation", "buyOrder", "sellOrder", "settlement">>
StageIndex(stage) == CHOOSE i \in 1..Len(StageOrder) : StageOrder[i] = stage

\* Timers of one delay fire in creation order: the stage timers in the order
\* of the stages, the warning (80% of settlementTimeout) after the validation
\* timer and before the execution timer.
MayFire(executionId, kind) ==
    CASE kind = "execution" -> <<executionId, "warning">> \notin timerCallbacks
      [] kind = "warning" -> <<executionId, "validation">> \notin timerCallbacks
      [] OTHER -> \A s \in Stages :
                     StageIndex(s) < StageIndex(kind)
                         => <<executionId, s>> \notin timerCallbacks

\* The events a timer's callback emits when it fires now.
TimerEvents(executionId, kind) ==
    TimerCallback([World EXCEPT !.events = {}], executionId, kind).events

(***************************************************************************)
(* AtomicExecutor.                                                         *)
(***************************************************************************)
IdleExecution ==
    [pc |-> "idle", opportunity |-> Null, buyOrder |-> NoOrder, sellOrder |-> NoOrder,
     result |-> "none", buyAtSell |-> "none", buyAtEnd |-> "none",
     sellAtEnd |-> "none"]

_validateExchangeHealth(opportunity) ==
    /\ health[opportunity.buyExchange].state = "healthy"
    /\ health[opportunity.sellExchange].state = "healthy"

\* The balance part of _validatePreconditions: 1% buffer for fees.
Atomic_balanceSufficient(opportunity) ==
    ~(100 * getAvailableBalance(opportunity.buyExchange, USDT)
          < 101 * opportunity.position.usdtAmount)

\* maxSlippage = 0.003
Atomic_validatePrices(opportunity, buyPrice, sellPrice) ==
    ~(\/ FracGT(Abs(buyPrice - opportunity.buyPrice),
                opportunity.buyPrice, 3, 1000)
      \/ FracGT(Abs(sellPrice - opportunity.sellPrice),
                opportunity.sellPrice, 3, 1000))

_handleExecutionFailure(w, executionId) ==
    IF executionId \notin DOMAIN w.timeouts THEN w
    ELSE clearExecution(
             emit(w, [type |-> "executionFailure", executionId |-> executionId]),
             executionId)

Atomic_executeBuyOrder(w, e, opportunity) ==
    createOrder(w, [exchange |-> opportunity.buyExchange, side |-> "buy",
                    amount |-> opportunity.position.vrscAmount,
                    price |-> opportunity.buyPrice, by |-> <<"atomic", e>>])

Atomic_executeSellOrder_retry(w, e, opportunity) ==
    LET params == [exchange |-> opportunity.sellExchange, side |-> "sell",
                   amount |-> opportunity.position.vrscAmount,
                   price |-> opportunity.sellPrice, by |-> <<"atomic", e>>]
        first == createOrder(w, params)
    IN IF first.order = NoOrder THEN createOrder(first.w, params) ELSE first

Atomic_executeSellOrder(w, e, opportunity) ==
    createOrder(w, [exchange |-> opportunity.sellExchange, side |-> "sell",
                    amount |-> opportunity.position.vrscAmount,
                    price |-> opportunity.sellPrice, by |-> <<"atomic", e>>])

\* _calculateProfit reads totalCost of both fills; new Decimal(undefined) throws.
_calculateProfit(w, buyFill, sellFill) ==
    IF totalCostOf(w, buyFill) = Null \/ totalCostOf(w, sellFill) = Null
    THEN "throws"
    ELSE totalCostOf(w, sellFill) - totalCostOf(w, buyFill)

AtomicUnchanged ==
    UNCHANGED <<now, balVars, cbVars, netVars, engine, health, trade, orderUpdates>>

\* executeArbitrage returns: result is Null or "settled".
AtomicReturn(e, w, execution, result) ==
    /\ atomic' = [atomic EXCEPT ![e] =
                    [execution EXCEPT !.pc = "done", !.result = result,
                        !.buyAtEnd = getOrderStatus(w, execution.buyOrder),
                        !.sellAtEnd = getOrderStatus(w, execution.sellOrder)]]
    /\ Commit(w)
    /\ AtomicUnchanged

\* The catch block of executeArbitrage.
AtomicCatch(e, w, execution) ==
    AtomicReturn(e, _handleExecutionFailure(w, e), execution, Null)

\* executeArbitrage up to its first wait for the price feed.
Atomic_executeArbitrage(e, opportunity) ==
    /\ engine = "atomic"
    /\ atomic[e].pc = "idle"
    /\ LET execution == [atomic[e] EXCEPT !.opportunity = opportunity]
           w1 == startExecution(World, e)
           w2 == startStage(w1, e, "validation")
       IN IF ~_validateExchangeHealth(opportunity)
          THEN AtomicReturn(e, w1, execution, Null)
          ELSE IF ~Atomic_balanceSufficient(opportunity)
          THEN AtomicReturn(e, w2, execution, Null)
          ELSE /\ atomic' = [atomic EXCEPT ![e] = [execution EXCEPT !.pc = "prices"]]
               /\ Commit(w2)
               /\ AtomicUnchanged

\* _getCurrentPrices answers: the rest of _validatePreconditions, then the
\* buy order is handed to the buy venue's queue.
Atomic_getCurrentPrices(e, buyPrice, sellPrice) ==
    /\ engine = "atomic"
    /\ atomic[e].pc = "prices"
    /\ LET execution == atomic[e]
           opportunity == execution.opportunity
           w1 == completeStage(World, e, "validation")
           w2 == startStage(w1, e, "buyOrder")
           w3 == enqueue(w2, opportunity.buyExchange, e)
       IN IF ~Atomic_validatePrices(opportunity, buyPrice, sellPrice)
          THEN AtomicReturn(e, World, execution, Null)
          ELSE /\ atomic' = [atomic EXCEPT ![e].pc = "buyQueued"]
               /\ Commit(w3)
               /\ AtomicUnchanged

\* The buy venue's queue runs the buy operation; then the sell is queued.
Atomic_buyOrderStage(e) ==
    /\ engine = "atomic"
    /\ atomic[e].pc = "buyQueued"
    /\ LET execution == atomic[e]
           opportunity == execution.opportunity
       IN /\ queues[opportunity.buyExchange] # <<>>
          /\ Head(queues[opportunity.buyExchange]) = e
          /\ LET w0 == [World EXCEPT !.queues[opportunity.buyExchange] = Tail(@)]
                 made == Atomic_executeBuyOrder(w0, e, opportunity)
                 w1 == emit(made.w, [type |-> "success",
                                     exchange |-> opportunity.buyExchange])
                 w2 == completeStage(w1, e, "buyOrder")
                 w3 == startStage(w2, e, "sellOrder")
                 w4 == enqueue(w3, opportunity.sellExchange, e)
             IN IF made.order = NoOrder
                THEN AtomicCatch(e, made.w, execution)
                ELSE /\ atomic' = [atomic EXCEPT ![e].pc = "sellQueued",
                                                 ![e].buyOrder = made.order]
                     /\ Commit(w4)
                     /\ AtomicUnchanged

\* The sell venue's queue runs the sell operation; then settlement starts.
Atomic_sellOrderStage(e) ==
    /\ engine = "atomic"
    /\ atomic[e].pc = "sellQueued"
    /\ LET execution == atomic[e]
           opportunity == execution.opportunity
       IN /\ queues[opportunity.sellExchange] # <<>>
          /\ Head(queues[opportunity.sellExchange]) = e
          /\ LET w0 == [World EXCEPT !.queues[opportunity.sellExchange] = Tail(@)]
                 made == Atomic_executeSellOrder(w0, e, opportunity)
                 w1 == emit(made.w, [type |-> "success",
                                     exchange |-> opportunity.sellExchange])
                 w2 == completeStage(w1, e, "sellOrder")
                 w3 == startStage(w2, e, "settlement")
             IN IF made.order = NoOrder
                THEN AtomicCatch(e, made.w, execution)
                ELSE /\ atomic' = [atomic EXCEPT ![e].pc = "waitBuyFill",
                                     ![e].sellOrder = made.order,
                                     ![e].buyAtSell =
                                         getOrderStatus(w0, execution.buyOrder)]
                     /\ Commit(w3)
                     /\ AtomicUnchanged

\* _waitForOrderFill(buyOrder) polls the buy order and finds it filled.
Atomic_waitForBuyFill(e) ==
    /\ engine = "atomic"
    /\ atomic[e].pc = "waitBuyFill"
    /\ getOrderStatus(World, atomic[e].buyOrder) = "filled"
    /\ atomic' = [atomic EXCEPT ![e].pc = "waitSellFill"]
    /\ UNCHANGED omVars
    /\ AtomicUnchanged

\* _waitForOrderFill(sellOrder) finds the sell order filled; _settleExecution
\* computes the profit and executeArbitrage returns the result.
Atomic_waitForSellFill(e) ==
    /\ engine = "atomic"
    /\ atomic[e].pc = "waitSellFill"
    /\ getOrderStatus(World, atomic[e].sellOrder) = "filled"
    /\ IF _calculateProfit(World, atomic[e].buyOrder, atomic[e].sellOrder) = "throws"
       THEN AtomicCatch(e, World, atomic[e])
       ELSE AtomicReturn(e, completeStage(World, e, "settlement"), atomic[e],
                         "settled")

\* _waitForOrderFill gives up after its timeout: Order fill timeout.
Atomic_orderFillTimeout(e) ==
    /\ engine = "atomic"
    /\ atomic[e].pc \in {"waitBuyFill", "waitSellFill"}
    /\ AtomicCatch(e, World, atomic[e])

\* A pending timer of the execution's ExecutionTimer falls due.
ExecutionTimer_fire(e, kind) ==
    /\ <<e, kind>> \in timerCallbacks
    /\ MayFire(e, kind)
    /\ Commit(TimerCallback([World EXCEPT !.timerCallbacks = @ \ {<<e, kind>>}],
                            e, kind))
    /\ UNCHANGED atomic
    /\ AtomicUnchanged

(***************************************************************************)
(* TradeExecutor.                                                          *)
(***************************************************************************)
IdleTrade ==
    [isExecuting |-> FALSE, pc |-> "idle", opportunity |-> Null, buyOrder |-> NoOrder,
     sellOrder |-> NoOrder, calls |-> 0, n |-> 0, ended |-> << >>]

\* maxSlippagePercent = 0.3, minProfitPercent = 0.5, compared with ratios.
Trade_validatePrices(opportunity, currentBuyPrice, currentSellPrice) ==
    IF currentBuyPrice = NullPrice \/ currentSellPrice = NullPrice THEN FALSE
    ELSE IF \/ FracGT(Abs(currentBuyPrice - opportunity.buyPrice),
                      opportunity.buyPrice, 3, 10)
            \/ FracGT(Abs(currentSellPrice - opportunity.sellPrice),
                      opportunity.sellPrice, 3, 10)
    THEN FALSE
    ELSE ~FracLT(currentSellPrice - currentBuyPrice, currentBuyPrice, 1, 2)

_checkBalances(opportunity) ==
    ~(100 * getAvailableBalance(opportunity.buyExchange, USDT)
          < 101 * opportunity.position.usdtAmount)

Trade_executeBuyOrder(w, n, opportunity) ==
    createOrder(w, [exchange |-> opportunity.buyExchange, side |-> "buy",
                    amount |-> opportunity.position.vrscAmount,
                    price |-> opportunity.buyPrice, by |-> <<"trade", n>>])

Trade_executeSellOrder(w, n, opportunity) ==
    createOrder(w, [exchange |-> opportunity.sellExchange, side |-> "sell",
                    amount |-> opportunity.position.vrscAmount,
                    price |-> opportunity.sellPrice, by |-> <<"trade", n>>])

_handleFailedSell(w, buyOrder) == cancelOrder(w, buyOrder)

\* Orders carry no filled property either, so !status.filled is always true.
filledOf(w, orderId) == Null

_handleCancellation(w, buyStatus, sellStatus) ==
    LET w1 == IF filledOf(w, buyStatus) = Null THEN cancelOrder(w, buyStatus) ELSE w
    IN IF filledOf(w1, sellStatus) = Null THEN cancelOrder(w1, sellStatus) ELSE w1

_handleTimeout(w, buyOrder, sellOrder) ==
    cancelOrder(cancelOrder(w, buyOrder), sellOrder)

\* _calculateFillMetrics reads order.totalCost: new Decimal(undefined) throws.
_performPostTradeAnalysis(w, buyOrder, sellOrder) ==
    IF totalCostOf(w, buyOrder) = Null \/ totalCostOf(w, sellOrder) = Null
    THEN "throws" ELSE "logged"

TradeUnchanged ==
    UNCHANGED <<now, balVars, cbVars, netVars, engine, health, atomic, orderUpdates>>

\* executeArbitrage returning without its finally block.
TradeReturn_keepBusy(w, execution, result) ==
    /\ trade' = [execution EXCEPT
                    !.pc = "idle",
                    !.ended = Append(@,
                        [n |-> execution.n, dropped |-> FALSE, result |-> result,
                         buyAtEnd |-> getOrderStatus(w, execution.buyOrder),
                         sellAtEnd |-> getOrderStatus(w, execution.sellOrder)])]
    /\ Commit(w)
    /\ TradeUnchanged

\* executeArbitrage returns after its finally block.
TradeReturn(w, execution, result) ==
    /\ trade' = [execution EXCEPT
                    !.isExecuting = FALSE, !.pc = "idle",
                    !.ended = Append(@,
                        [n |-> execution.n, dropped |-> FALSE, result |-> result,
                         buyAtEnd |-> getOrderStatus(w, execution.buyOrder),
                         sellAtEnd |-> getOrderStatus(w, execution.sellOrder)])]
    /\ Commit(w)
    /\ TradeUnchanged

Trade_executeArbitrage(opportunity) ==
    /\ engine = "trade"
    /\ trade.calls < MaxTradeCalls
    /\ IF trade.isExecuting
       THEN trade' = [trade EXCEPT
                        !.calls = @ + 1,
                        !.ended = Append(@,
                            [n |-> trade.calls + 1, dropped |-> TRUE, result |-> FALSE,
                             buyAtEnd |-> "none", sellAtEnd |-> "none"])]
       ELSE trade' = [trade EXCEPT !.isExecuting = TRUE, !.pc = "prices",
                                   !.calls = @ + 1, !.n = trade.calls + 1,
                                   !.opportunity = opportunity,
                                   !.buyOrder = NoOrder, !.sellOrder = NoOrder]
    /\ UNCHANGED omVars
    /\ TradeUnchanged

\* _getCurrentPrice has answered for both venues: the rest of _validatePrices,
\* _checkBalances and both order placements run without a further wait.
Trade_getCurrentPrice(currentBuyPrice, currentSellPrice) ==
    /\ engine = "trade"
    /\ trade.pc = "prices"
    /\ LET opportunity == trade.opportunity
           buy == Trade_executeBuyOrder(World, trade.n, opportunity)
           sell == Trade_executeSellOrder(buy.w, trade.n, opportunity)
           withBuy == [trade EXCEPT !.buyOrder = buy.order]
       IN IF \/ ~Trade_validatePrices(opportunity, currentBuyPrice, currentSellPrice)
             \/ ~_checkBalances(opportunity)
          THEN TradeReturn(World, trade, FALSE)
          ELSE IF buy.order = NoOrder
          THEN TradeReturn(buy.w, trade, FALSE)
          ELSE IF sell.order = NoOrder
          THEN TradeReturn(_handleFailedSell(sell.w, buy.order), withBuy, FALSE)
          ELSE /\ trade' = [withBuy EXCEPT !.sellOrder = sell.order, !.pc = "monitor"]
               /\ Commit(sell.w)
               /\ TradeUnchanged

\* _monitorExecution polls and finds both orders filled.
Trade_monitorFilled ==
    /\ engine = "trade"
    /\ trade.pc = "monitor"
    /\ getOrderStatus(World, trade.buyOrder) = "filled"
    /\ getOrderStatus(World, trade.sellOrder) = "filled"
    /\ TradeReturn(World, trade,
           _performPostTradeAnalysis(World, trade.buyOrder, trade.sellOrder) # "throws")

\* _monitorExecution polls and finds an order cancelled.
Trade_monitorCancelled ==
    /\ engine = "trade"
    /\ trade.pc = "monitor"
    /\ ~(/\ getOrderStatus(World, trade.buyOrder) = "filled"
         /\ getOrderStatus(World, trade.sellOrder) = "filled")
    /\ \/ getOrderStatus(World, trade.buyOrder) = "cancelled"
       \/ getOrderStatus(World, trade.sellOrder) = "cancelled"
    /\ TradeReturn(_handleCancellation(World, trade.buyOrder, trade.sellOrder),
                   trade, FALSE)

\* _monitorExecution reaches executionTimeout.
Trade_monitorTimeout ==
    /\ engine = "trade"
    /\ trade.pc = "monitor"
    /\ TradeReturn(_handleTimeout(World, trade.buyOrder, trade.sellOrder),
                   trade, FALSE)

(***************************************************************************)
(* HeartbeatManager: one monitored connection.  The interval timer and     *)
(* the ping timeouts are deadlines on the clock.                           *)
(***************************************************************************)
\* lastPing is history: the time of the last ping sent, -1 before the first.
NoConnection ==
    [monitored |-> FALSE, isAlive |-> TRUE, missedBeats |-> 0, lastBeat |-> 0,
     nextCheck |-> 0, pingTimeout |-> 0, timers |-> {}, failed |-> 0,
     lastPing |-> -1]

\* An already monitored connection is stopped first; the ping timeouts that
\* stopMonitoring does not clear only write to the dropped connection object.
startMonitoring ==
    /\ now + checkInterval <= MaxBeatNow
    /\ heartbeat' = [NoConnection EXCEPT !.monitored = TRUE, !.lastBeat = now,
                                         !.nextCheck = now + checkInterval,
                                         !.failed = heartbeat.failed]
    /\ UNCHANGED <<now, balVars, cbVars, exVars, wsm, limiter, detector, appVars>>

stopMonitoringOf(connection) ==
    [connection EXCEPT !.monitored = FALSE, !.timers = {}]

stopMonitoring ==
    /\ heartbeat.monitored
    /\ heartbeat' = stopMonitoringOf(heartbeat)
    /\ UNCHANGED <<now, balVars, cbVars, exVars, wsm, limiter, detector, appVars>>

receivePong ==
    /\ heartbeat.monitored
    /\ heartbeat' = [heartbeat EXCEPT !.isAlive = TRUE, !.missedBeats = 0,
                                      !.lastBeat = now,
                                      !.timers = @ \ {heartbeat.pingTimeout}]
    /\ UNCHANGED <<now, balVars, cbVars, exVars, wsm, limiter, detector, appVars>>

_handleConnectionFailure(connection) ==
    stopMonitoringOf([connection EXCEPT !.failed = @ + 1])

\* The setInterval callback of startMonitoring.
_checkConnection ==
    /\ heartbeat.monitored
    /\ heartbeat.nextCheck <= now
    /\ LET c0 == [heartbeat EXCEPT !.nextCheck = now + checkInterval]
           c1 == IF ~c0.isAlive THEN [c0 EXCEPT !.missedBeats = @ + 1] ELSE c0
       IN heartbeat' =
            IF ~c0.isAlive /\ c1.missedBeats >= maxMissedBeats
            THEN _handleConnectionFailure(c1)
            ELSE [c1 EXCEPT !.isAlive = FALSE, !.lastPing = now,
                            !.pingTimeout = now + timeout,
                            !.timers = @ \cup {now + timeout}]
    /\ UNCHANGED <<now, balVars, cbVars, exVars, wsm, limiter, detector, appVars>>

\* The setTimeout callback set after a ping.
pingTimeout ==
    /\ \E due \in heartbeat.timers :
          /\ due <= now
          /\ heartbeat' = [heartbeat EXCEPT !.isAlive = FALSE, !.timers = @ \ {due}]
    /\ UNCHANGED <<now, balVars, cbVars, exVars, wsm, limiter, detector, appVars>>

\* Time passes up to the next check, never past a deadline that is due.
BeatTick ==
    /\ now + checkInterval <= MaxBeatNow
    /\ heartbeat.monitored => heartbeat.nextCheck > now
    /\ \A due \in heartbeat.timers : due > now
    /\ now' = now + checkInterval
    /\ UNCHANGED <<balVars, cbVars, exVars, netVars>>

(***************************************************************************)
(* WebSocketManager: the sockets, reconnect timers and breaker of one      *)
(* exchange.  A socket is "connecting" or "open"; a closed socket is gone.  *)
(***************************************************************************)
RECURSIVE Pow2(_)
Pow2(n) == IF n = 0 THEN 1 ELSE 2 * Pow2(n - 1)

\* errorListeners counts the listeners of the manager's own 'error' event;
\* crashed: an 'error' event was emitted with no listener, which throws out of
\* the socket's event handler and ends the process.
\* failedAttempts is history: the reconnection attempts that failed in a row.
\* A timer remembers, as history, when it was set (at) and failedAttempts (n);
\* copy tells apart the timers set in the same instant.
NoSockets ==
    [reconnectAttempts |-> 0, breaker |-> NewMonitor, sockets |-> << >>,
     created |-> 0, connection |-> 0, monitored |-> 0, timers |-> {},
     raised |-> 0, failedAttempts |-> 0, disconnected |-> FALSE,
     errorListeners |-> 0, crashed |-> FALSE]

WsmUnchanged == UNCHANGED <<now, balVars, cbVars, exVars, heartbeat, limiter, detector, appVars>>

\* connect: null while the breaker is open, else a new socket.
connect(w, isRetry) ==
    LET monitor == isOpen(w.breaker, now)
        id == w.created + 1
    IN IF monitor.state = "open"
       THEN [w EXCEPT !.breaker = monitor]
       ELSE [w EXCEPT !.breaker = monitor, !.created = id, !.connection = id,
                      !.sockets = MapSet(@, id, [state |-> "connecting",
                                                 errored |-> FALSE,
                                                 isRetry |-> isRetry])]

_handleDisconnect(w) ==
    LET attempts == w.reconnectAttempts
    IN IF attempts < maxReconnectAttempts
       THEN [w EXCEPT !.timers = @ \cup
                {[due |-> now + reconnectDelay * Pow2(attempts),
                  attempts |-> attempts, at |-> now, n |-> w.failedAttempts,
                  copy |-> Cardinality({timer \in w.timers :
                                          /\ timer.at = now
                                          /\ timer.attempts = attempts
                                          /\ timer.n = w.failedAttempts})]}]
       ELSE [w EXCEPT !.breaker = onError(@, now), !.raised = @ + 1]

\* on('error', listener): the owner listens before it connects.
Wsm_on ==
    /\ ~wsm.crashed
    /\ wsm.created = 0
    /\ wsm.errorListeners = 0
    /\ wsm' = [wsm EXCEPT !.errorListeners = 1]
    /\ WsmUnchanged

\* The application connects the exchange.
Wsm_connect ==
    /\ ~wsm.crashed
    /\ wsm.created = 0
    /\ wsm' = connect(wsm, FALSE)
    /\ WsmUnchanged

\* ws.on('open')
Wsm_onOpen(id) ==
    /\ ~wsm.crashed
    /\ id \in DOMAIN wsm.sockets
    /\ wsm.sockets[id].state = "connecting"
    /\ ~wsm.sockets[id].errored
    /\ wsm' = [wsm EXCEPT !.reconnectAttempts = 0, !.breaker = onSuccess(@),
                          !.monitored = id, !.failedAttempts = 0,
                          !.sockets[id].state = "open"]
    /\ WsmUnchanged

\* ws.on('error'): a socket reports an error once, before it closes.  The
\* failure is counted, then 'error' is emitted: with no listener the emit
\* throws and the process ends.
Wsm_onError(id) ==
    /\ ~wsm.crashed
    /\ id \in DOMAIN wsm.sockets
    /\ ~wsm.sockets[id].errored
    /\ wsm' = [wsm EXCEPT !.breaker = onError(@, now), !.sockets[id].errored = TRUE,
                          !.crashed = (wsm.errorListeners = 0)]
    /\ WsmUnchanged

\* ws.on('close'): stopMonitoring is by exchange, whatever socket closed.
Wsm_onClose(id) ==
    /\ ~wsm.crashed
    /\ id \in DOMAIN wsm.sockets
    /\ LET socket == wsm.sockets[id]
           w1 == [wsm EXCEPT !.monitored = 0, !.sockets = MapDelete(@, id),
                             !.failedAttempts =
                                IF socket.isRetry /\ socket.state = "connecting"
                                THEN @ + 1 ELSE @]
       IN wsm' = _handleDisconnect(w1)
    /\ WsmUnchanged

\* heartbeatManager.on('connectionFailed'): HeartbeatManager has stopped
\* monitoring; the socket itself is left as it is.
Wsm_connectionFailed ==
    /\ ~wsm.crashed
    /\ wsm.monitored # 0
    /\ LET w1 == [wsm EXCEPT !.monitored = 0]
       IN wsm' = IF wsm.connection # 0 THEN _handleDisconnect(w1) ELSE w1
    /\ WsmUnchanged

\* disconnect: the connection is forgotten and its socket told to close; the
\* socket's 'close' event follows.  disconnected is history: the caller has
\* disconnected the exchange and not connected it again.  The exchange's last
\* price is deleted with the connection.
Wsm_disconnect ==
    /\ ~wsm.crashed
    /\ wsm.connection # 0
    /\ wsm' = [wsm EXCEPT !.monitored = 0, !.connection = 0, !.disconnected = TRUE]
    /\ feed' = [feed EXCEPT !.lastPrices = << >>]
    /\ UNCHANGED <<now, balVars, cbVars, exVars, heartbeat, limiter, detector,
                   ogre, checks, depth, settle, lateVars>>

\* The setTimeout callback of _handleDisconnect.
Wsm_reconnect ==
    /\ ~wsm.crashed
    /\ wsm.created < MaxSockets
    /\ \E timer \in wsm.timers :
          /\ timer.due <= now
          /\ wsm' = connect([wsm EXCEPT !.timers = @ \ {timer},
                                        !.reconnectAttempts = timer.attempts + 1],
                            TRUE)
    /\ WsmUnchanged

WsmTick ==
    /\ now + reconnectDelay <= MaxSocketNow
    /\ \A timer \in wsm.timers : timer.due > now
    /\ now' = now + reconnectDelay
    /\ UNCHANGED <<balVars, cbVars, exVars, netVars>>

(***************************************************************************)
(* RateLimiter: the calls of one exchange (p-limit concurrency 1, p-retry  *)
(* with retries = 3).  The waits of the rate limit and between retries are *)
(* not timed: any amount of time may pass.                                 *)
(***************************************************************************)
\* running.attempt is the number of the attempt in progress or last failed
\* (0: no call is running); running.waiting: p-retry waits before a retry.
\* opStarts is history: how many times the operation was started.
NoCalls ==
    [errorCounts |-> << >>, lastCall |-> 0, queue |-> 0,
     running |-> [attempt |-> 0, waiting |-> FALSE],
     calls |-> 0, rejected |-> 0, opStarts |-> 0]

LimiterUnchanged == UNCHANGED <<now, balVars, cbVars, exVars, heartbeat, wsm, detector, appVars>>

_shouldBackoff ==
    Cardinality({i \in 1..Len(limiter.errorCounts) :
                    now - limiter.errorCounts[i] < backoffTime}) >= 5

\* executeWithRetry up to handing the call to the limiter.
executeWithRetry ==
    /\ limiter.calls < MaxCalls
    /\ limiter' = IF _shouldBackoff
                  THEN [limiter EXCEPT !.calls = @ + 1, !.rejected = @ + 1]
                  ELSE [limiter EXCEPT !.calls = @ + 1, !.queue = @ + 1]
    /\ LimiterUnchanged

\* The limiter runs the next queued call: p-retry starts the operation.
Limiter_run ==
    /\ limiter.queue > 0
    /\ limiter.running.attempt = 0
    /\ limiter' = [limiter EXCEPT !.queue = @ - 1, !.opStarts = @ + 1,
                                  !.running = [attempt |-> 1, waiting |-> FALSE]]
    /\ LimiterUnchanged

\* The operation succeeds.
Limiter_operationSucceeds ==
    /\ limiter.running.attempt > 0
    /\ ~limiter.running.waiting
    /\ limiter' = [limiter EXCEPT !.lastCall = now, !.errorCounts = << >>,
                                  !.running = [attempt |-> 0, waiting |-> FALSE]]
    /\ LimiterUnchanged

\* The operation fails: onFailedAttempt records the error, then p-retry
\* waits for the next attempt or, with no retries left, rethrows.
Limiter_operationFails ==
    /\ limiter.running.attempt > 0
    /\ ~limiter.running.waiting
    /\ limiter' = [limiter EXCEPT
                      !.errorCounts = Append(@, now),
                      !.running = IF @.attempt <= retries
                                  THEN [@ EXCEPT !.waiting = TRUE]
                                  ELSE [attempt |-> 0, waiting |-> FALSE]]
    /\ LimiterUnchanged

\* p-retry starts the operation again.
Limiter_retry ==
    /\ limiter.running.waiting
    /\ limiter' = [limiter EXCEPT !.opStarts = @ + 1,
                                  !.running = [attempt |-> @.attempt + 1,
                                               waiting |-> FALSE]]
    /\ LimiterUnchanged

LimiterTick ==
    /\ now + LimiterStep <= MaxLimiterNow
    /\ now' = now + LimiterStep
    /\ UNCHANGED <<balVars, cbVars, exVars, netVars>>

(***************************************************************************)
(* ArbitrageDetector.  Prices are in cents, volumes and minProfitUSD and   *)
(* minVolumeUSD in dollars, minSpreadPercent and maxSlippage in tenths of  *)
(* a percent.  A Decimal is kept exactly: the spread as the fraction       *)
(* num / den (in percent), the profit in 1/100000 dollar.                  *)
(***************************************************************************)
DefaultConfig ==
    [minSpreadPercent |-> 5, minVolumeUSD |-> 1000, maxSlippage |-> 3,
     minProfitUSD |-> 1]

\* The configurations the detector is built with: the defaults, and a larger
\* minimum spread or minimum profit.
Configs ==
    { [DefaultConfig EXCEPT !.minSpreadPercent = s, !.minProfitUSD = p] :
        s \in {5, 20}, p \in {1, 5} }

TickPrices == { 100, 101, 103 }
TickVolumes == { 500, 1000 }
TickTimes == { t \in 0..MaxDetectorNow : t % DetectorStep = 0 }

Ticks ==
    [exchange : ExecExchanges, price : TickPrices, volume : TickVolumes,
     timestamp : TickTimes]

\* The prices map handed to detectArbitrage, in insertion order of its keys.
PriceMaps(t) ==
    LET Fresh1 == { tick \in Ticks : tick.timestamp <= t }
    IN {<< >>} \cup { <<a>> : a \in Fresh1 }
          \cup { pair \in { <<a, b>> : a \in Fresh1, b \in Fresh1 } :
                    pair[1].exchange # pair[2].exchange }

Detector_validatePrices(buyPrice, sellPrice, t) ==
    ~(t - buyPrice.timestamp > maxAge \/ t - sellPrice.timestamp > maxAge)

_calculateSpread(buyPrice, sellPrice) ==
    [num |-> (sellPrice - buyPrice) * 100, den |-> buyPrice]

\* revenue - cost - cost x 0.002 - cost x maxSlippage / 100.
Detector_calculateProfit(config, buyPrice, sellPrice, volume) ==
    volume * (1000 * (sellPrice - buyPrice) - (2 + config.maxSlippage) * buyPrice)

\* _checkPair: the opportunity, or nothing for null.
\* The spread, a percentage, is compared with minSpreadPercent / 100.
_checkPair(config, buyPrice, sellPrice, t) ==
    LET spread == _calculateSpread(buyPrice.price, sellPrice.price)
        volume == Min(buyPrice.volume, sellPrice.volume)
        profit == Detector_calculateProfit(config, buyPrice.price, sellPrice.price, volume)
    IN IF ~Detector_validatePrices(buyPrice, sellPrice, t) THEN << >>
       ELSE IF FracLT(spread.num, spread.den, config.minSpreadPercent, 1000) THEN << >>
       ELSE IF volume < config.minVolumeUSD THEN << >>
       ELSE IF profit < config.minProfitUSD * 100000 THEN << >>
       ELSE << [buyExchange |-> buyPrice.exchange, sellExchange |-> sellPrice.exchange,
                buyPrice |-> buyPrice.price, sellPrice |-> sellPrice.price,
                spread |-> spread, volume |-> volume, profit |-> profit,
                timestamp |-> t] >>

\* The sort by descending profit (stable) and the slice to the best five.
RECURSIVE SortByProfit(_)
SortByProfit(opportunities) ==
    IF opportunities = << >> THEN << >>
    ELSE LET n == Len(opportunities)
             sorted == SortByProfit(SubSeq(opportunities, 1, n - 1))
             x == opportunities[n]
             ahead == Cardinality({ i \in 1..Len(sorted) : sorted[i].profit >= x.profit })
         IN SubSeq(sorted, 1, ahead) \o <<x>> \o SubSeq(sorted, ahead + 1, Len(sorted))

_filterBestOpportunities(opportunities) ==
    LET sorted == SortByProfit(opportunities)
    IN SubSeq(sorted, 1, Min(5, Len(sorted)))

\* The double loop over the exchanges of the map: pair k of Len x Len.
RECURSIVE CheckPairs(_, _, _, _)
CheckPairs(config, prices, t, k) ==
    IF k = 0 THEN << >>
    ELSE LET n == Len(prices)
             i == ((k - 1) \div n) + 1
             j == ((k - 1) % n) + 1
         IN CheckPairs(config, prices, t, k - 1)
               \o (IF i = j THEN << >> ELSE _checkPair(config, prices[i], prices[j], t))

DetectArbitrage(config, prices, t) ==
    _filterBestOpportunities(CheckPairs(config, prices, t, Len(prices) * Len(prices)))

NoDetection == [prices |-> << >>, at |-> 0, opportunities |-> << >>]
NewDetector(config) == [config |-> config, last |-> NoDetection]

detectArbitrage ==
    /\ \E prices \in PriceMaps(now) :
          detector' = [detector EXCEPT !.last =
                         [prices |-> prices, at |-> now,
                          opportunities |-> DetectArbitrage(detector.config, prices, now)]]
    /\ UNCHANGED <<now, balVars, cbVars, exVars, heartbeat, wsm, limiter, appVars>>

DetectorTick ==
    /\ now + DetectorStep <= MaxDetectorNow
    /\ now' = now + DetectorStep
    /\ UNCHANGED <<balVars, cbVars, exVars, netVars>>

(***************************************************************************)
(* PriceValidator.  Prices are in cents; minPrice 0.00001 and maxPrice     *)
(* 1000000 are dollars; maxPriceDeviation is 0.1.                          *)
(***************************************************************************)
\* The context validatePrice is called with; an exchange of << >>, no recent
\* prices and a timestamp of 0 stand for the properties left undefined.
NoContext == [exchange |-> << >>, recentPrices |-> << >>, timestamp |-> 0]

RECURSIVE SumPrices(_)
SumPrices(prices) ==
    IF prices = << >> THEN 0 ELSE prices[1] + SumPrices(Tail(prices))

\* Decimal.isPositive is true of zero; prices are finite.
_isValidNumber(price) == price >= 0

_isWithinRange(price) == price * 1000 >= 1 /\ price <= 1000000 * 100

\* Decimal keeps 20 significant digits and rounds half up.  10^k and 10^k mod n:
RECURSIVE Pow10(_)
Pow10(k) == IF k = 0 THEN 1 ELSE 10 * Pow10(k - 1)
RECURSIVE Pow10Mod(_, _)
Pow10Mod(k, n) == IF k = 0 THEN 1 % n ELSE (10 * Pow10Mod(k - 1, n)) % n

\* The decimal exponent of sum / n: the largest e with 10^e <= sum / n.
RECURSIVE ExponentUp(_, _, _)
ExponentUp(sum, n, e) ==
    IF Pow10(e + 1) * n <= sum THEN ExponentUp(sum, n, e + 1) ELSE e
RECURSIVE ExponentDown(_, _, _)
ExponentDown(sum, n, e) ==
    IF Pow10(-e) * sum < n THEN ExponentDown(sum, n, e - 1) ELSE e
Exponent(sum, n) ==
    IF sum >= n THEN ExponentUp(sum, n, 0) ELSE ExponentDown(sum, n, 0)

\* _calculateAverage rounds sum / n to 20 digits: the rounded average is the
\* exact one plus AverageError / n units of its last digit (0 when exact).
AverageError(sum, n) ==
    LET r == ((sum % n) * Pow10Mod(19 - Exponent(sum, n), n)) % n
    IN IF r = 0 THEN 0 ELSE IF 2 * r >= n THEN n - r ELSE -r

\* k * m * 10^e > sum (or >= sum when orEqual), for any sign of e.
Outweighs(k, m, e, sum, orEqual) ==
    LET left == IF e >= 0 THEN k * m * Pow10(e) ELSE k * m
        right == IF e >= 0 THEN sum ELSE sum * Pow10(-e)
    IN IF orEqual THEN left >= right ELSE left > right

\* |price - average| / average <= 0.1.  An average of zero gives NaN or
\* Infinity, which is not <= 0.1.  Away from a deviation of exactly 10% the
\* rounding changes nothing; at exactly 10% the rounded average decides, and
\* the deviation itself is rounded to 20 digits again.
_isWithinDeviation(price, recentPrices) ==
    LET n == Len(recentPrices)
        sum == SumPrices(recentPrices)
        distance == Abs(price * n - sum)
        m == AverageError(sum, n)
        e == Exponent(sum, n)
    IN IF n = 0 THEN TRUE
       ELSE IF sum = 0 THEN FALSE
       ELSE IF sum < 0 THEN TRUE
       ELSE IF 10 * distance # sum THEN 10 * distance < sum
       ELSE IF m = 0 THEN TRUE
       ELSE IF price * n < sum
       THEN ~(m > 0 /\ Outweighs(18, m, e, sum, FALSE))
       ELSE ~(m < 0 /\ Outweighs(22, -m, e, sum, TRUE))

_isPriceFresh(timestamp, t) == t - timestamp < maxStalePrice

_updatePriceHistory(priceHistory, exchange, price, t) ==
    IF exchange = << >> THEN priceHistory
    ELSE LET history == Append(IF exchange \in DOMAIN priceHistory
                               THEN priceHistory[exchange] ELSE << >>,
                               [price |-> price, timestamp |-> t])
         IN MapSet(priceHistory, exchange,
                   SelectSeq(history, LAMBDA entry : entry.timestamp > t - priceValidityMs))

\* validatePrice: its answer and the price history after it.
validatePrice(priceHistory, price, context, t) ==
    IF ~_isValidNumber(price) THEN [valid |-> FALSE, priceHistory |-> priceHistory]
    ELSE IF ~_isWithinRange(price) THEN [valid |-> FALSE, priceHistory |-> priceHistory]
    ELSE IF ~_isWithinDeviation(price, context.recentPrices)
    THEN [valid |-> FALSE, priceHistory |-> priceHistory]
    ELSE IF context.timestamp # 0 /\ ~_isPriceFresh(context.timestamp, t)
    THEN [valid |-> FALSE, priceHistory |-> priceHistory]
    ELSE [valid |-> TRUE,
          priceHistory |-> _updatePriceHistory(priceHistory, context.exchange, price, t)]

(***************************************************************************)
(* TradeOgre: a venue quoted in BTC.  Prices in BTC are integers (satoshi  *)
(* scale), the bridge rate is an integer, 0 for null.                      *)
(***************************************************************************)
BridgeRates == { 2, 3 }
BtcPrices == { 2, 4 }

NewTradeOgre ==
    [btcUsdtPrice |-> 0, lastBtcUpdate |-> 0, priceCache |-> << >>,
     priceHistory |-> << >>, cached |-> 0]

_updatePriceCache(priceData, t) ==
    << [price |-> priceData.price, timestamp |-> priceData.timestamp,
        source |-> priceData.source, cacheTimestamp |-> t] >>

\* What both handlers do with the price in USDT they computed.
Ogre_cache(priceInUsdt) ==
    LET validated == validatePrice(ogre.priceHistory, priceInUsdt, NoContext, now)
    IN IF validated.valid
       THEN [ogre EXCEPT !.priceCache =
                            _updatePriceCache([price |-> priceInUsdt, timestamp |-> now,
                                               source |-> "websocket"], now),
                         !.priceHistory = validated.priceHistory,
                         !.cached = @ + 1]
       ELSE ogre

OgreUnchanged ==
    UNCHANGED <<now, balVars, cbVars, exVars, heartbeat, wsm, limiter, detector, feed, checks, depth, settle, lateVars>>

_handleTradeUpdate ==
    /\ ogre.cached < MaxOgreTicks
    /\ \E price \in BtcPrices :
          ogre' = IF ogre.btcUsdtPrice = 0 THEN ogre
                  ELSE Ogre_cache(price * ogre.btcUsdtPrice)
    /\ OgreUnchanged

\* The mid price (ask + bid) / 2; the books offered have an even sum.
_handleOrderBookUpdate ==
    /\ ogre.cached < MaxOgreTicks
    /\ \E topAskBtc \in BtcPrices, topBidBtc \in BtcPrices :
          /\ topBidBtc <= topAskBtc
          /\ ogre' = IF ogre.btcUsdtPrice = 0 THEN ogre
                     ELSE Ogre_cache(((topAskBtc + topBidBtc) \div 2) * ogre.btcUsdtPrice)
    /\ OgreUnchanged

\* The refresh of the BTC/USDT bridge rate.
Ogre_updateBtcPrice ==
    /\ \E rate \in BridgeRates :
          ogre' = [ogre EXCEPT !.btcUsdtPrice = rate, !.lastBtcUpdate = now]
    /\ OgreUnchanged

OgreTick ==
    /\ now + OgreStep <= MaxOgreNow
    /\ now' = now + OgreStep
    /\ UNCHANGED <<balVars, cbVars, exVars, netVars>>

(***************************************************************************)
(* WebSocketManager: the message handler of one exchange's socket.         *)
(***************************************************************************)
\* The price field of a message in cents, 0 when the field is missing.
MessagePrices == { 0, 100, 105, 115, 200 }

NoPrices ==
    [priceHistory |-> << >>, lastPrices |-> << >>, emitted |-> << >>, messages |-> 0]

\* _extractPrice: parseFloat of the exchange's price field, null without it.
_extractPrice(message) == IF message.price = 0 THEN 0 ELSE message.price

Wsm_onMessage ==
    /\ ~wsm.crashed
    /\ feed.messages < MaxMessages
    /\ \E message \in [price : MessagePrices] :
          LET price == _extractPrice(message)
              validated == validatePrice(feed.priceHistory, price, NoContext, now)
          IN feed' = IF price # 0 /\ validated.valid
                     THEN [feed EXCEPT
                             !.messages = @ + 1,
                             !.priceHistory = validated.priceHistory,
                             !.lastPrices = << [price |-> price, timestamp |-> now] >>,
                             !.emitted = Append(@, [price |-> price, timestamp |-> now])]
                     ELSE [feed EXCEPT !.messages = @ + 1]
    /\ UNCHANGED <<now, balVars, cbVars, exVars, heartbeat, wsm, limiter, detector, ogre, checks, depth, settle, lateVars>>

FeedTick ==
    /\ now + FeedStep <= MaxFeedNow
    /\ now' = now + FeedStep
    /\ UNCHANGED <<balVars, cbVars, exVars, netVars>>

(***************************************************************************)
(* The pre-trade price checks: OpportunityValidator._validatePrices and    *)
(* the executors' _validatePrices, applied to the same prices.             *)
(***************************************************************************)
\* config.maxSlippage = 0.3, compared with the change relative to the current
\* price; without marketData.currentPrices the check passes.
Validator_validatePrices(opportunity, marketData) ==
    IF marketData.currentPrices = << >> THEN TRUE
    ELSE LET currentBuyPrice == marketData.currentPrices[1].buy
             currentSellPrice == marketData.currentPrices[1].sell
         IN ~(\/ FracGT(Abs(opportunity.buyPrice - currentBuyPrice), currentBuyPrice, 3, 10)
              \/ FracGT(Abs(opportunity.sellPrice - currentSellPrice), currentSellPrice,
                        3, 10))

CheckedOpportunities == [buyPrice : {1000}, sellPrice : {1010, 2000}]
CurrentPrices == { 996, 997, 1000, 1003, 1004, 1010, 1400, 1990, 1994, 2000, 2006, 2007 }
MarketData ==
    { [currentPrices |-> << >>] }
        \cup { [currentPrices |-> << [buy |-> b, sell |-> s] >>] :
                  b \in CurrentPrices, s \in CurrentPrices }

NoChecks ==
    [calls |-> 0, opportunity |-> [buyPrice |-> 0, sellPrice |-> 0],
     currentPrices |-> << >>, validator |-> TRUE, trade |-> TRUE, atomic |-> TRUE]

\* The current prices as the executors' price feed hands them over (null: 0).
CurrentOf(marketData, side) ==
    IF marketData.currentPrices = << >> THEN NullPrice
    ELSE IF side = "buy" THEN marketData.currentPrices[1].buy
    ELSE marketData.currentPrices[1].sell

\* One check of an opportunity against any of the current prices.
ValidatePrices ==
    /\ checks.calls = 0
    /\ \E opportunity \in CheckedOpportunities, marketData \in MarketData :
          checks' =
             [calls |-> 1, opportunity |-> opportunity,
              currentPrices |-> marketData.currentPrices,
              validator |-> Validator_validatePrices(opportunity, marketData),
              trade |-> Trade_validatePrices(opportunity, CurrentOf(marketData, "buy"),
                                             CurrentOf(marketData, "sell")),
              atomic |-> Atomic_validatePrices(opportunity, CurrentOf(marketData, "buy"),
                                               CurrentOf(marketData, "sell"))]
    /\ UNCHANGED <<now, balVars, cbVars, exVars, heartbeat, wsm, limiter, detector, ogre,
                   feed, depth, settle, lateVars>>

(***************************************************************************)
(* MarketDepthAnalyzer.  Prices are in 1/10000 dollar, amounts are whole;  *)
(* an average price is the fraction totalCost / filledAmount.              *)
(***************************************************************************)
\* The loop of _analyzeSide over the levels [price, amount].
RECURSIVE WalkOrders(_, _, _)
WalkOrders(levels, remainingAmount, acc) ==
    IF levels = << >> THEN [acc EXCEPT !.remainingAmount = remainingAmount]
    ELSE LET fillAmount == Min(remainingAmount, levels[1][2])
             next == [acc EXCEPT !.totalCost = @ + fillAmount * levels[1][1],
                                 !.filledAmount = @ + fillAmount]
         IN IF remainingAmount - fillAmount = 0
            THEN [next EXCEPT !.remainingAmount = 0]
            ELSE WalkOrders(Tail(levels), remainingAmount - fillAmount, next)

\* slippage = (weightedPrice - basePrice) / basePrice for a buy and the opposite
\* for a sell, as the fraction num / den; weightedPrice is 0 when nothing fills.
_analyzeSide(levels, targetAmount, side) ==
    LET walk == WalkOrders(levels, targetAmount,
                           [totalCost |-> 0, filledAmount |-> 0, remainingAmount |-> 0])
        basePrice == levels[1][1]
        filled == IF walk.filledAmount = 0 THEN 1 ELSE walk.filledAmount
        gap == walk.totalCost - basePrice * filled
    IN [filledAmount |-> walk.filledAmount, remainingAmount |-> walk.remainingAmount,
        totalCost |-> walk.totalCost,
        slippage |-> [num |-> IF side = "buy" THEN gap ELSE 0 - gap,
                      den |-> basePrice * filled]]

\* slippagePercent = slippage x 100 against maxSlippage = 0.003; the impact
\* totalCost / targetAmount against maxImpact = 0.1 dollar.
_isExecutable(analysis, targetAmount) ==
    IF analysis.buyAnalysis.remainingAmount > 0 \/ analysis.sellAnalysis.remainingAmount > 0
    THEN FALSE
    ELSE IF \/ FracGT(100 * analysis.buyAnalysis.slippage.num,
                      analysis.buyAnalysis.slippage.den, 3, 1000)
            \/ FracGT(100 * analysis.sellAnalysis.slippage.num,
                      analysis.sellAnalysis.slippage.den, 3, 1000)
    THEN FALSE
    ELSE IF \/ FracGT(analysis.buyAnalysis.totalCost, targetAmount, 1000, 1)
            \/ FracGT(analysis.sellAnalysis.totalCost, targetAmount, 1000, 1)
    THEN FALSE
    ELSE TRUE

NoSide ==
    [filledAmount |-> 0, remainingAmount |-> 0, totalCost |-> 0,
     slippage |-> [num |-> 0, den |-> 1]]
NullAnalysis ==
    [isNull |-> TRUE, buyAnalysis |-> NoSide, sellAnalysis |-> NoSide,
     isExecutable |-> FALSE]

\* analyzeDepth: reading the best level of an empty side throws, which is caught
\* and answered with null.
analyzeDepth(orderbook, targetAmount) ==
    IF orderbook.bids = << >> \/ orderbook.asks = << >> THEN NullAnalysis
    ELSE LET analysis ==
                 [buyAnalysis |-> _analyzeSide(orderbook.bids, targetAmount, "buy"),
                  sellAnalysis |-> _analyzeSide(orderbook.asks, targetAmount, "sell")]
         IN [isNull |-> FALSE, buyAnalysis |-> analysis.buyAnalysis,
             sellAnalysis |-> analysis.sellAnalysis,
             isExecutable |-> _isExecutable(analysis, targetAmount)]

BookPrices == { 500, 501, 510, 2000 }
BookAmounts == { 5, 10 }
Levels == { <<price, amount>> : price \in BookPrices, amount \in BookAmounts }
\* The asks of a book, best (lowest) first; its bids, best (highest) first.
AskBooks ==
    {<< >>} \cup { <<a>> : a \in Levels }
        \cup { book \in { <<a, b>> : a \in Levels, b \in Levels } : book[1][1] < book[2][1] }
BidBooks ==
    {<< >>} \cup { <<a>> : a \in Levels }
        \cup { book \in { <<a, b>> : a \in Levels, b \in Levels } : book[1][1] > book[2][1] }
TargetAmounts == { 5, 10, 20 }

NoAnalysis ==
    [calls |-> 0, orderbook |-> [bids |-> << >>, asks |-> << >>], targetAmount |-> 0,
     result |-> NullAnalysis]

\* One call of analyzeDepth, on any of the books.
AnalyzeDepth ==
    /\ depth.calls = 0
    /\ \E bids \in BidBooks, asks \in AskBooks, targetAmount \in TargetAmounts :
          LET orderbook == [bids |-> bids, asks |-> asks]
          IN depth' = [calls |-> 1, orderbook |-> orderbook, targetAmount |-> targetAmount,
                       result |-> analyzeDepth(orderbook, targetAmount)]
    /\ UNCHANGED <<now, balVars, cbVars, exVars, heartbeat, wsm, limiter, detector, ogre,
                   feed, checks, settle, lateVars>>

(***************************************************************************)
(* SettlementManager.  The order manager and the balance manager are the   *)
(* collaborators handed to the constructor: what getOrder and getBalance   *)
(* answer is an input of each step, cancelOrder calls are recorded.        *)
(***************************************************************************)
NoSettlements ==
    [settlements |-> << >>, pc |-> "idle", attempt |-> 0, cancelCalls |-> << >>,
     events |-> << >>, results |-> << >>]

\* What getOrder answers: an order with a status, or it throws.
OrderAnswers == { "pending", "filled", "cancelled", "error" }

SettleUnchanged ==
    UNCHANGED <<now, balVars, cbVars, exVars, heartbeat, wsm, limiter, detector, ogre,
                feed, checks, depth, lateVars>>

\* settleArbitrage up to its first await: the settlement is stored, the timer
\* and the buyConfirmation stage are started.  The orders of settlement k are
\* 2k - 1 and 2k; costed says whether they carry a totalCost.
settleArbitrage ==
    /\ settle.pc = "idle"
    /\ Len(settle.settlements) < MaxSettlements
    /\ \E costed \in BOOLEAN :
          LET id == Len(settle.settlements) + 1
          IN settle' = [settle EXCEPT
                          !.settlements = Append(@,
                              [id |-> id, buyOrder |-> 2 * id - 1, sellOrder |-> 2 * id,
                               costed |-> costed, status |-> "pending", stages |-> << >>,
                               started |-> {"buyConfirmation"}, completed |-> {},
                               failedIn |-> "none"]),
                          !.pc = "buyConfirmation",
                          !.attempt = 1]
    /\ SettleUnchanged

\* The return of settleArbitrage's catch.
Failure(st) ==
    [st EXCEPT !.results = Append(@, [settlementId |-> Len(st.settlements),
                                      success |-> FALSE]),
               !.pc = "idle", !.attempt = 0]

\* _attemptRecovery: when the last stage pushed is buyConfirmation the buy order
\* is cancelled and the answer of cancelOrder awaited; else nothing is awaited
\* and the catch returns.
_attemptRecovery(st, settlement) ==
    IF settlement.stages # << >>
           /\ settlement.stages[Len(settlement.stages)] = "buyConfirmation"
    THEN [st EXCEPT !.cancelCalls = Append(@, settlement.buyOrder),
                    !.pc = "recovery", !.attempt = 0]
    ELSE Failure(st)

\* The catch of settleArbitrage: _handleSettlementFailure up to the await of
\* _attemptRecovery.
_handleSettlementFailure(st, stage) ==
    LET id == Len(st.settlements)
        failed == [st EXCEPT !.settlements[id].status = "failed",
                             !.settlements[id].failedIn = stage,
                             !.events = Append(@, [type |-> "settlementFailed",
                                                   settlementId |-> id])]
    IN _attemptRecovery(failed, failed.settlements[id])

\* cancelOrder answers or throws: _attemptRecovery catches the rejection, and
\* the catch of settleArbitrage returns.
Settle_cancelOrderAnswered ==
    /\ settle.pc = "recovery"
    /\ \E cancelled \in BOOLEAN : settle' = Failure(settle)
    /\ SettleUnchanged

\* A stage confirmed: pushed to settlement.stages, completed, the next started.
StageDone(st, stage, next) ==
    LET id == Len(st.settlements)
    IN [st EXCEPT !.settlements[id].stages = Append(@, stage),
                  !.settlements[id].completed = @ \cup {stage},
                  !.settlements[id].started = @ \cup {next},
                  !.pc = next, !.attempt = 1]

\* One attempt of _waitForOrderConfirmation inside _confirmBuyOrder or
\* _confirmSellOrder; the wait of retryDelay between attempts is not timed.
_waitForOrderConfirmation(stage, next) ==
    /\ settle.pc = stage
    /\ \E answer \in OrderAnswers :
          settle' = IF answer = "filled" THEN StageDone(settle, stage, next)
                    ELSE IF answer = "error" \/ settle.attempt >= retryAttempts
                    THEN _handleSettlementFailure(settle, stage)
                    ELSE [settle EXCEPT !.attempt = @ + 1]
    /\ SettleUnchanged

_confirmBuyOrder == _waitForOrderConfirmation("buyConfirmation", "sellConfirmation")
_confirmSellOrder == _waitForOrderConfirmation("sellConfirmation", "balanceVerification")

\* _confirmBalance answers a balance when three reads in a row agree, else null.
_verifyBalances ==
    /\ settle.pc = "balanceVerification"
    /\ \E buyBalance \in BOOLEAN, sellBalance \in BOOLEAN :
          settle' = IF buyBalance /\ sellBalance
                    THEN StageDone(settle, "balanceVerification", "finalConfirmation")
                    ELSE _handleSettlementFailure(settle, "balanceVerification")
    /\ SettleUnchanged

\* _finalizeSettlement; _calculateProfit throws on orders without a totalCost,
\* after the status was set to completed.
_finalizeSettlement ==
    /\ settle.pc = "finalConfirmation"
    /\ LET id == Len(settle.settlements)
           completed == [settle EXCEPT !.settlements[id].status = "completed"]
       IN settle' =
             IF ~settle.settlements[id].costed
             THEN _handleSettlementFailure(completed, "finalConfirmation")
             ELSE [completed EXCEPT
                     !.settlements[id].completed = @ \cup {"finalConfirmation"},
                     !.events = Append(@, [type |-> "settlementCompleted",
                                           settlementId |-> id]),
                     !.results = Append(@, [settlementId |-> id, success |-> TRUE]),
                     !.pc = "idle", !.attempt = 0]
    /\ SettleUnchanged

(***************************************************************************)
(* PositionManager (trading/positionManager.js).  Amounts and prices are   *)
(* whole numbers chosen so that every product the code computes is whole;  *)
(* an absent currentPrice or exitPrice is 0.  Timestamps are left out.     *)
(***************************************************************************)
\* The constructor's config: the defaults, and a caller's tighter limits.
\* stopLossPercent is a fraction numerator / denominator (0.5 = 1 / 2).
DefaultPositionConfig ==
    [maxPositionSize |-> 1000, maxTotalExposure |-> 5000, maxPositionsPerExchange |-> 3,
     stopLossPercent |-> <<1, 2>>]

PositionConfigs ==
    { DefaultPositionConfig,
      [DefaultPositionConfig EXCEPT !.maxTotalExposure = 2000,
                                    !.maxPositionsPerExchange = 2] }

NewPositionManager(config) ==
    [config |-> config, positions |-> << >>, events |-> << >>,
     last |-> [op |-> "none"], calls |-> 0]

PositionExchanges == { "safetrade", "tradeogre" }
Sides == { "buy", "sell" }
PositionAmounts == { 3, 5, 6 }
EntryPrices == { 200 }
UpdatePrices == { 100, 199, 203, 206 }

getOpenPositions(pm, exchange) ==
    { id \in 1..Len(pm.positions) :
        pm.positions[id].status = "open" /\ pm.positions[id].exchange = exchange }

RECURSIVE SumExposure(_, _)
SumExposure(positions, n) ==
    IF n = 0 THEN 0
    ELSE SumExposure(positions, n - 1)
         + (IF positions[n].status = "open"
            THEN positions[n].amount * positions[n].entryPrice ELSE 0)

getTotalExposure(pm) == SumExposure(pm.positions, Len(pm.positions))

\* _validatePositionParams without its total-exposure check.
_validatePositionParams_noExposure(pm, params) ==
    IF Cardinality(getOpenPositions(pm, params.exchange))
           >= pm.config.maxPositionsPerExchange
    THEN "Exchange position limit reached"
    ELSE IF params.amount * params.price > pm.config.maxPositionSize
    THEN "Position size exceeds maximum"
    ELSE "valid"

\* The reason of the rejection, or "valid".
_validatePositionParams(pm, params) ==
    LET positionSize == params.amount * params.price
    IN IF Cardinality(getOpenPositions(pm, params.exchange))
              >= pm.config.maxPositionsPerExchange
       THEN "Exchange position limit reached"
       ELSE IF positionSize > pm.config.maxPositionSize
       THEN "Position size exceeds maximum"
       ELSE IF getTotalExposure(pm) + positionSize > pm.config.maxTotalExposure
       THEN "Total exposure limit exceeded"
       ELSE "valid"

\* price x (1 - stopLossPercent) for a buy, price x (1 + stopLossPercent) for a sell.
_calculateStopLoss(config, price, side) ==
    LET num == config.stopLossPercent[1]
        den == config.stopLossPercent[2]
    IN IF side = "buy" THEN (price * (den - num)) \div den
                       ELSE (price * (den + num)) \div den

\* The same function in orders/orderTracker.js divides the percentage by 100:
\* price x (1 - stopLossPercent / 100) for a buy.
Tracker_calculateStopLoss(config, price, side) ==
    LET num == config.stopLossPercent[1]
        den == 100 * config.stopLossPercent[2]
    IN IF side = "buy" THEN (price * (den - num)) \div den
                       ELSE (price * (den + num)) \div den

\* Targets at 1%, 2% and 3% of the entry price.
_calculateTakeProfitTargets(price, side) ==
    [i \in 1..3 |->
        [price |-> IF side = "buy" THEN (price * (100 + i)) \div 100
                                   ELSE (price * (100 - i)) \div 100,
         percentage |-> i, hit |-> FALSE]]

_calculatePnL(position, exitPrice) ==
    LET entryValue == position.amount * position.entryPrice
        exitValue == position.amount * exitPrice
    IN IF position.side = "buy" THEN exitValue - entryValue ELSE entryValue - exitValue

\* NewlyHit without the test of the hit flag.
NewlyHit_anyCrossing(position, currentPrice) ==
    { i \in 1..Len(position.takeProfitTargets) :
        \/ position.side = "buy" /\ currentPrice >= position.takeProfitTargets[i].price
        \/ position.side = "sell" /\ currentPrice <= position.takeProfitTargets[i].price }

\* The targets a price crosses that were not hit before.
NewlyHit(position, currentPrice) ==
    { i \in 1..Len(position.takeProfitTargets) :
        /\ ~position.takeProfitTargets[i].hit
        /\ \/ position.side = "buy" /\ currentPrice >= position.takeProfitTargets[i].price
           \/ position.side = "sell" /\ currentPrice <= position.takeProfitTargets[i].price }

RECURSIVE TakeProfitEvents(_, _, _)
TakeProfitEvents(id, hits, i) ==
    IF i > 3 THEN << >>
    ELSE (IF i \in hits THEN << [type |-> "takeProfitHit", id |-> id, targetIndex |-> i] >>
          ELSE << >>) \o TakeProfitEvents(id, hits, i + 1)

\* _checkExitConditions: the position with its hit flags, and the events emitted.
_checkExitConditions(position, currentPrice) ==
    LET stopped == \/ position.side = "buy" /\ currentPrice <= position.stopLoss
                   \/ position.side = "sell" /\ currentPrice >= position.stopLoss
        hits == NewlyHit(position, currentPrice)
    IN [position |-> [position EXCEPT !.takeProfitTargets =
                          [i \in 1..3 |-> [@[i] EXCEPT !.hit = @ \/ i \in hits]]],
        events |-> (IF stopped
                    THEN << [type |-> "stopLossTriggered", id |-> position.id,
                             targetIndex |-> 0] >>
                    ELSE << >>) \o TakeProfitEvents(position.id, hits, 1)]

PositionUnchanged ==
    UNCHANGED <<now, balVars, cbVars, exVars, heartbeat, wsm, limiter, detector, ogre,
                feed, checks, depth, settle, app, requestQueue, tailVars>>

openPosition ==
    /\ positionManager.calls < MaxPositionCalls
    /\ \E exchange \in PositionExchanges, side \in Sides, amount \in PositionAmounts,
          price \in EntryPrices :
          LET params == [exchange |-> exchange, side |-> side, amount |-> amount,
                         price |-> price]
              reason == _validatePositionParams(positionManager, params)
              id == Len(positionManager.positions) + 1
              position ==
                  [id |-> id, exchange |-> exchange, side |-> side, amount |-> amount,
                   entryPrice |-> price, status |-> "open", unrealizedPnL |-> 0,
                   realizedPnL |-> 0, currentPrice |-> 0, exitPrice |-> 0,
                   stopLoss |-> _calculateStopLoss(positionManager.config, price, side),
                   takeProfitTargets |-> _calculateTakeProfitTargets(price, side)]
          IN positionManager' =
                IF reason # "valid"
                THEN [positionManager EXCEPT
                        !.events = << >>,
                        !.last = [op |-> "openPosition", params |-> params, result |-> 0],
                        !.calls = @ + 1]
                ELSE [positionManager EXCEPT
                        !.positions = Append(@, position),
                        !.events = << [type |-> "positionOpened", id |-> id,
                                       targetIndex |-> 0] >>,
                        !.last = [op |-> "openPosition", params |-> params, result |-> id],
                        !.calls = @ + 1]
    /\ PositionUnchanged

\* updatePosition with a price-only update { currentPrice }.
updatePosition ==
    /\ positionManager.calls < MaxPositionCalls
    /\ \E id \in 1..Len(positionManager.positions), currentPrice \in UpdatePrices :
          LET position == positionManager.positions[id]
              priced == [position EXCEPT
                           !.currentPrice = currentPrice,
                           !.unrealizedPnL = _calculatePnL(position, currentPrice)]
              checked == _checkExitConditions(priced, currentPrice)
          IN positionManager' =
                [positionManager EXCEPT
                    !.positions[id] = checked.position,
                    !.events = checked.events
                               \o << [type |-> "positionUpdated", id |-> id,
                                      targetIndex |-> 0] >>,
                    !.last = [op |-> "updatePosition", id |-> id,
                              currentPrice |-> currentPrice],
                    !.calls = @ + 1]
    /\ PositionUnchanged

closePosition ==
    /\ positionManager.calls < MaxPositionCalls
    /\ \E id \in 1..Len(positionManager.positions), closePrice \in UpdatePrices :
          LET position == positionManager.positions[id]
          IN positionManager' =
                [positionManager EXCEPT
                    !.positions[id] = [position EXCEPT
                                          !.status = "closed",
                                          !.exitPrice = closePrice,
                                          !.realizedPnL = _calculatePnL(position, closePrice),
                                          !.unrealizedPnL = 0],
                    !.events = << [type |-> "positionClosed", id |-> id,
                                   targetIndex |-> 0] >>,
                    !.last = [op |-> "closePosition", id |-> id, closePrice |-> closePrice],
                    !.calls = @ + 1]
    /\ PositionUnchanged

(***************************************************************************)
(* The process (index.js) with its PriceFeedManager, ExchangeManager and   *)
(* connectors.  An EventEmitter that emits 'error' with no listener for it *)
(* throws; an exception nothing catches ends the process with code 1.      *)
(***************************************************************************)
Venues == { "safetrade", "tradeogre", "verusdefi" }

\* Before main runs.  main registers no 'error' listener on the price feed.
\* Of each connector: its connected flag (connected holds the connectors whose
\* flag is set), the socket in this.ws, the sockets created, those that are
\* connecting and those that are open, those among them that were told to
\* close, and its pending reconnection timers.
NewProcess ==
    [phase |-> "starting", exitCode |-> 0, cause |-> "none", registered |-> {},
     connected |-> {}, ws |-> [exchange \in Venues |-> 0],
     created |-> [exchange \in Venues |-> 0],
     connecting |-> [exchange \in Venues |-> {}],
     opened |-> [exchange \in Venues |-> {}],
     closing |-> [exchange \in Venues |-> {}],
     timers |-> [exchange \in Venues |-> 0],
     errorListeners |-> 0, disconnected |-> 0, failedRequests |-> 0]

Exit(process, code, cause) ==
    [process EXCEPT !.phase = "exited", !.exitCode = code, !.cause = cause]

AppUnchanged ==
    UNCHANGED <<now, balVars, cbVars, exVars, heartbeat, wsm, limiter, detector, ogre,
                feed, checks, depth, settle, positionManager, requestQueue, tailVars>>

\* main: the monitors and the price feed start, or the catch exits with 1.
main ==
    /\ app.phase = "starting"
    /\ \E initialized \in BOOLEAN :
          app' = IF initialized THEN [app EXCEPT !.phase = "running"]
                 ELSE Exit(app, 1, "initialization")
    /\ AppUnchanged

registerExchange(exchange) ==
    /\ app.phase = "running"
    /\ exchange \notin app.registered
    /\ app' = [app EXCEPT !.registered = @ \cup {exchange}]
    /\ AppUnchanged

\* BaseConnector.connect: nothing when the connected flag is set, else a new
\* socket in this.ws with its handlers.
BaseConnector_connect(process, exchange) ==
    IF exchange \in process.connected THEN process
    ELSE LET id == process.created[exchange] + 1
         IN [process EXCEPT !.created[exchange] = id, !.ws[exchange] = id,
                            !.connecting[exchange] = @ \cup {id}]

\* A caller connects the connector.
Connector_connect(exchange) ==
    /\ app.phase = "running"
    /\ exchange \in app.registered
    /\ exchange \in app.connected \/ app.created[exchange] < MaxConnectorSockets
    /\ app' = BaseConnector_connect(app, exchange)
    /\ AppUnchanged

\* 'open' of a socket of the connector.
Connector_onOpen(exchange, id) ==
    /\ app.phase = "running"
    /\ id \in app.connecting[exchange] \ app.closing[exchange]
    /\ app' = [app EXCEPT !.connecting[exchange] = @ \ {id},
                          !.opened[exchange] = @ \cup {id},
                          !.connected = @ \cup {exchange}]
    /\ AppUnchanged

\* 'close' of a socket, open or not: the flag is cleared and _handleDisconnect
\* emits disconnected and schedules a reconnection.
Connector_handleDisconnect(exchange, id) ==
    /\ app.phase = "running"
    /\ id \in app.connecting[exchange] \cup app.opened[exchange]
    /\ app' = [app EXCEPT !.connecting[exchange] = @ \ {id},
                          !.opened[exchange] = @ \ {id},
                          !.closing[exchange] = @ \ {id},
                          !.connected = @ \ {exchange},
                          !.timers[exchange] = @ + 1,
                          !.disconnected = 1]
    /\ AppUnchanged

\* BaseConnector.disconnect: with a socket in this.ws, the socket is told to
\* close and the flag is cleared; the socket's 'close' follows.
Connector_disconnect(exchange) ==
    /\ app.phase = "running"
    /\ exchange \in app.registered
    /\ app.ws[exchange] # 0
    /\ app' = [app EXCEPT
                 !.closing[exchange] =
                     @ \cup ({app.ws[exchange]}
                             \cap (app.connecting[exchange] \cup app.opened[exchange])),
                 !.connected = @ \ {exchange}]
    /\ AppUnchanged

\* The reconnection timer of _handleDisconnect: connect() unless the flag is set.
Connector_reconnect(exchange) ==
    /\ app.phase = "running"
    /\ app.timers[exchange] > 0
    /\ exchange \in app.connected \/ app.created[exchange] < MaxConnectorSockets
    /\ app' = BaseConnector_connect([app EXCEPT !.timers[exchange] = @ - 1], exchange)
    /\ AppUnchanged

\* PriceFeedManager's exchangeError handler: logs and emits 'error'.
Feed_onExchangeError(process) ==
    IF process.errorListeners = 0 THEN Exit(process, 1, "uncaughtException")
    ELSE process

\* 'error' on a connector's socket: _handleError emits 'error', the
\* ExchangeManager emits exchangeError, the PriceFeedManager emits 'error'.
Connector_handleError(exchange, id) ==
    /\ app.phase = "running"
    /\ id \in app.connecting[exchange] \cup app.opened[exchange]
    /\ app' = Feed_onExchangeError(app)
    /\ AppUnchanged

\* fetchPrice fails after its retries: the error is logged and thrown to the
\* caller of fetchPrice.
Connector_fetchPrice(exchange) ==
    /\ app.phase = "running"
    /\ exchange \in app.registered
    /\ app.failedRequests < MaxFailedRequests
    /\ app' = [app EXCEPT !.failedRequests = @ + 1]
    /\ AppUnchanged

\* The SIGINT handler: the monitors stop, the feed disconnects, exit(0).
Sigint ==
    /\ app.phase = "running"
    /\ app' = Exit([app EXCEPT !.connected = {}], 0, "SIGINT")
    /\ AppUnchanged

(***************************************************************************)
(* RequestQueue (utils/request-queue.js): one PQueue per exchange.  An     *)
(* operation is a caller's promise: it settles when the caller's code      *)
(* settles it, or never.                                                   *)
(***************************************************************************)
QueueExchanges == { "safetrade", "verusdefi" }

\* _getConfig: the PQueue options of the exchange.
_getConfig(exchange) ==
    IF exchange = "verusdefi"
    THEN [concurrency |-> 2, interval |-> 5000, intervalCap |-> 1]
    ELSE [concurrency |-> 1, interval |-> 10000, intervalCap |-> 1]

\* The PQueue of an exchange: its interval timer (running, next tick), the end
\* of the first interval of the timer that was last set (intervalEnd, before
\* the clock's zero at first), the timeout that resumes a cleared interval
\* (resume) and the operations started in the interval (intervalCount).
NewQueue ==
    [running |-> FALSE, next |-> 0, intervalEnd |-> -1, resume |-> FALSE,
     intervalCount |-> 0]

NoRequests ==
    [ops |-> << >>, successes |-> 0, queues |-> [exchange \in QueueExchanges |-> NewQueue]]

OpsOf(rq, exchange, state) ==
    { id \in 1..Len(rq.ops) : rq.ops[id].exchange = exchange /\ rq.ops[id].state = state }

\* PQueue._isIntervalPaused answers whether a cleared interval has yet to end;
\* it forgets the count of an interval that has ended and sets the timeout
\* that resumes one that has not.
IsIntervalPaused(queue, t) == ~queue.running /\ queue.intervalEnd >= t

_isIntervalPaused(queue, t) ==
    IF queue.running THEN queue
    ELSE IF queue.intervalEnd < t THEN [queue EXCEPT !.intervalCount = 0]
    ELSE [queue EXCEPT !.resume = TRUE]

_initializeIntervalIfNeeded(queue, config, t) ==
    IF queue.running THEN queue
    ELSE [queue EXCEPT !.running = TRUE, !.next = t + config.interval,
                       !.intervalEnd = t + config.interval]

\* PQueue._tryToStartAnother: with nothing waiting the interval timer is
\* cleared; else the first waiting operation starts when fewer than concurrency
\* are running and fewer than intervalCap were started in the interval.  The
\* function given to queue.add runs, creates its AbortController and sets its
\* timer.
_tryToStartAnother(rq, exchange, t) ==
    LET queued == OpsOf(rq, exchange, "queued")
        config == _getConfig(exchange)
        queue == rq.queues[exchange]
        checked == _isIntervalPaused(queue, t)
        started == [checked EXCEPT !.intervalCount = @ + 1]
    IN IF queued = {}
       THEN [rq EXCEPT !.queues[exchange].running = FALSE, !.queues[exchange].next = 0]
       ELSE IF /\ checked.intervalCount < config.intervalCap
               /\ Cardinality(OpsOf(rq, exchange, "running")) < config.concurrency
       THEN LET id == CHOOSE i \in queued : \A j \in queued : i <= j
            IN [rq EXCEPT !.ops[id].state = "running", !.ops[id].startedAt = t,
                          !.queues[exchange] =
                              IF IsIntervalPaused(queue, t) THEN started
                              ELSE _initializeIntervalIfNeeded(started, config, t)]
       ELSE [rq EXCEPT !.queues[exchange] = checked]

RECURSIVE _processQueue(_, _, _)
_processQueue(rq, exchange, t) ==
    LET tried == _tryToStartAnother(rq, exchange, t)
    IN IF tried.ops # rq.ops THEN _processQueue(tried, exchange, t) ELSE tried

\* PQueue._onInterval: an interval in which nothing started and nothing runs
\* clears the timer; the count starts again and the queue is processed.
_onInterval(rq, exchange, t) ==
    LET queue == rq.queues[exchange]
        idle == /\ queue.intervalCount = 0
                /\ OpsOf(rq, exchange, "running") = {}
                /\ queue.running
    IN _processQueue([rq EXCEPT
                         !.queues[exchange].running = IF idle THEN FALSE ELSE @,
                         !.queues[exchange].next = IF idle THEN 0 ELSE @,
                         !.queues[exchange].intervalCount = 0],
                     exchange, t)

RqUnchanged ==
    UNCHANGED <<balVars, cbVars, exVars, heartbeat, wsm, limiter, detector, ogre,
                feed, checks, depth, settle, positionManager, app, tailVars>>

Rq_enqueue(exchange) ==
    /\ Len(requestQueue.ops) < MaxOperations
    /\ requestQueue' =
          _tryToStartAnother([requestQueue EXCEPT
                        !.ops = Append(@, [exchange |-> exchange, state |-> "queued",
                                           startedAt |-> 0, aborted |-> FALSE])],
                    exchange, now)
    /\ UNCHANGED now
    /\ RqUnchanged

\* operation() settles: success is emitted on a result, the finally clears the
\* timer, and the PQueue starts the next operation it can.
Rq_settle(id) ==
    /\ id \in 1..Len(requestQueue.ops)
    /\ requestQueue.ops[id].state = "running"
    /\ \E outcome \in { "success", "error" } :
          requestQueue' =
              _tryToStartAnother([requestQueue EXCEPT
                            !.ops[id].state = outcome,
                            !.successes = IF outcome = "success" THEN @ + 1 ELSE @],
                        requestQueue.ops[id].exchange, now)
    /\ UNCHANGED now
    /\ RqUnchanged

\* The timer of enqueue fires: controller.abort().  Nothing reads the signal.
Rq_abort(id) ==
    /\ id \in 1..Len(requestQueue.ops)
    /\ requestQueue.ops[id].state = "running"
    /\ ~requestQueue.ops[id].aborted
    /\ now >= requestQueue.ops[id].startedAt + requestTimeout
    /\ requestQueue' = [requestQueue EXCEPT !.ops[id].aborted = TRUE]
    /\ UNCHANGED now
    /\ RqUnchanged

\* The interval timer of the PQueue ticks.
Rq_interval(exchange) ==
    /\ requestQueue.queues[exchange].running
    /\ requestQueue.queues[exchange].next <= now
    /\ requestQueue' =
          _onInterval([requestQueue EXCEPT
                          !.queues[exchange].next = @ + _getConfig(exchange).interval],
                      exchange, now)
    /\ UNCHANGED now
    /\ RqUnchanged

\* PQueue._onResumeInterval: the timeout set for the end of a cleared interval.
Rq_resume(exchange) ==
    /\ requestQueue.queues[exchange].resume
    /\ requestQueue.queues[exchange].intervalEnd <= now
    /\ LET resumed == _onInterval(requestQueue, exchange, now)
       IN requestQueue' =
             [resumed EXCEPT
                 !.queues[exchange] =
                     [_initializeIntervalIfNeeded(@, _getConfig(exchange), now)
                         EXCEPT !.resume = FALSE]]
    /\ UNCHANGED now
    /\ RqUnchanged

\* Time passes once the timers that are due have fired.
RqTick ==
    /\ now < MaxRqNow
    /\ \A id \in 1..Len(requestQueue.ops) :
          (requestQueue.ops[id].state = "running" /\ ~requestQueue.ops[id].aborted)
              => now < requestQueue.ops[id].startedAt + requestTimeout
    /\ \A exchange \in QueueExchanges :
          LET queue == requestQueue.queues[exchange]
          IN /\ queue.running => queue.next > now
             /\ queue.resume => queue.intervalEnd > now
    /\ now' = now + RqStep
    /\ UNCHANGED requestQueue
    /\ RqUnchanged

(***************************************************************************)
(* ConnectionPool.  A caller of acquire is suspended at each await: its     *)
(* continuation runs later as a microtask, after the synchronous code that  *)
(* is running and before any time passes.                                   *)
(***************************************************************************)
PoolExchanges == { "safetrade", "tradeogre" }
PoolSizes == { 1, 2 }
Callers == 1..MaxCallers

IdleCaller == [pc |-> "idle", exchange |-> "none", connection |-> 0]

\* Before the constructor: no config yet.  objects[k] is the k-th connection
\* object created; connections maps an id to the object stored under it.
NoPool ==
    [maxConnections |-> 0, connections |-> << >>, objects |-> << >>,
     connectionQueue |-> << >>, callers |-> [c \in Callers |-> IdleCaller]]

\* Map iteration is in insertion order; ids are creation times, so by id.
_getIdleConnection(p, exchange) ==
    LET idle == { id \in DOMAIN p.connections :
                    /\ ~p.objects[p.connections[id]].inUse
                    /\ p.objects[p.connections[id]].exchange = exchange }
    IN IF idle = {} THEN 0
       ELSE p.connections[CHOOSE id \in idle : \A other \in idle : id <= other]

\* id is Date.now().toString(): a second connection created in the same
\* millisecond replaces the first in the map.
_createConnection(p, exchange, t) ==
    [p EXCEPT !.objects = Append(@, [id |-> t, exchange |-> exchange,
                                     lastUsed |-> t, inUse |-> TRUE]),
              !.connections = MapSet(@, t, Len(p.objects) + 1)]

_cleanupIdleConnections(p, t) ==
    [p EXCEPT !.connections =
        [id \in { x \in DOMAIN p.connections :
                    ~(/\ ~p.objects[p.connections[x]].inUse
                      /\ t - p.objects[p.connections[x]].lastUsed > maxIdleTime) }
            |-> p.connections[id]]]

\* The tail of acquire, after its awaits.
Acquired(p, c, k, t) ==
    [p EXCEPT !.objects[k].lastUsed = t, !.objects[k].inUse = TRUE,
              !.callers[c].pc = "holding", !.callers[c].connection = k]

PoolUnchanged ==
    UNCHANGED <<headVars, fetcher, healthMonitor, riskLimits>>

\* new ConnectionPool({ maxConnections })
Pool_constructor ==
    /\ pool.maxConnections = 0
    /\ \E maxConnections \in PoolSizes :
          pool' = [pool EXCEPT !.maxConnections = maxConnections]
    /\ UNCHANGED now
    /\ PoolUnchanged

\* acquire up to its first await, or to its return when a connection is idle.
Pool_acquire(c, exchange) ==
    /\ pool.maxConnections > 0
    /\ pool.callers[c].pc = "idle"
    /\ LET connection == _getIdleConnection(pool, exchange)
           called == [pool EXCEPT !.callers[c].exchange = exchange]
       IN IF connection # 0
          THEN pool' = Acquired(called, c, connection, now)
          ELSE IF Cardinality(DOMAIN pool.connections) >= pool.maxConnections
          THEN pool' = [called EXCEPT !.connectionQueue = Append(@, c),
                                      !.callers[c].pc = "waiting"]
          ELSE /\ Len(pool.objects) < MaxPoolObjects
               /\ pool' = [_createConnection(called, exchange, now) EXCEPT
                              !.callers[c].pc = "resumed",
                              !.callers[c].connection = Len(pool.objects) + 1]
    /\ UNCHANGED now
    /\ PoolUnchanged

\* The continuation of acquire after await _createConnection or
\* await _waitForConnection.
Pool_acquireResumed(c) ==
    /\ pool.callers[c].pc = "resumed"
    /\ pool' = Acquired(pool, c, pool.callers[c].connection, now)
    /\ UNCHANGED now
    /\ PoolUnchanged

\* release by the caller that holds the connection.
Pool_release(c) ==
    /\ pool.callers[c].pc = "holding"
    /\ LET k == pool.callers[c].connection
           freed == [pool EXCEPT !.objects[k].inUse = FALSE,
                                 !.objects[k].lastUsed = now,
                                 !.callers[c] = IdleCaller]
           handed ==
               IF freed.connectionQueue = << >> THEN freed
               ELSE [freed EXCEPT
                        !.connectionQueue = Tail(@),
                        !.callers[Head(freed.connectionQueue)].pc = "resumed",
                        !.callers[Head(freed.connectionQueue)].connection = k]
       IN pool' = _cleanupIdleConnections(handed, now)
    /\ UNCHANGED now
    /\ PoolUnchanged

\* Time passes once no continuation is pending.
PoolTick ==
    /\ now + PoolStep <= MaxPoolNow
    /\ \A c \in Callers : pool.callers[c].pc # "resumed"
    /\ now' = now + PoolStep
    /\ UNCHANGED pool
    /\ PoolUnchanged

NextPool ==
    \/ Pool_constructor
    \/ \E c \in Callers, exchange \in PoolExchanges : Pool_acquire(c, exchange)
    \/ \E c \in Callers : Pool_acquireResumed(c)
    \/ \E c \in Callers : Pool_release(c)
    \/ PoolTick

(***************************************************************************)
(* ExchangeHealthMonitor.  sinceDegraded is a history field: the number of  *)
(* consecutive successes recorded since the venue became degraded.          *)
(***************************************************************************)
HealthExchanges == { "safetrade", "tradeogre" }

\* _getStatus creates this status on the first access of a venue.
NewStatus == [state |-> "healthy", successCount |-> 0, errorCount |-> 0]

NewHealthMonitor ==
    [health |-> [x \in HealthExchanges |-> NewStatus],
     metrics |-> [x \in HealthExchanges |-> [successCount |-> 0, errorCount |-> 0]],
     sinceDegraded |-> [x \in HealthExchanges |-> 0],
     stateChange |-> [exchange |-> "none", oldState |-> "none", newState |-> "none"]]

\* stateChange is what the call emitted: nothing when the state is kept.
_updateState(m, exchange, newState) ==
    [m EXCEPT !.health[exchange].state = newState,
              !.stateChange =
                  IF m.health[exchange].state # newState
                  THEN [exchange |-> exchange, oldState |-> m.health[exchange].state,
                        newState |-> newState]
                  ELSE @]

_updateMetrics(m, exchange, type) ==
    IF type = "success"
    THEN [m EXCEPT !.metrics[exchange].successCount = @ + 1]
    ELSE [m EXCEPT !.metrics[exchange].errorCount = @ + 1]

Silent(m) ==
    [m EXCEPT !.stateChange = [exchange |-> "none", oldState |-> "none",
                               newState |-> "none"]]

Health_recordSuccess(m, exchange) ==
    LET counted == [Silent(m) EXCEPT
                       !.health[exchange].successCount = @ + 1,
                       !.health[exchange].errorCount = 0,
                       !.sinceDegraded[exchange] =
                           IF m.health[exchange].state = "degraded" THEN @ + 1 ELSE @]
        updated == IF /\ counted.health[exchange].state = "degraded"
                      /\ counted.health[exchange].successCount >= recoveryThreshold
                   THEN _updateState(counted, exchange, "healthy")
                   ELSE counted
    IN _updateMetrics(updated, exchange, "success")

Health_recordError(m, exchange) ==
    LET counted == [Silent(m) EXCEPT !.health[exchange].errorCount = @ + 1,
                                     !.sinceDegraded[exchange] = 0]
        updated == IF counted.health[exchange].errorCount >= errorThreshold
                   THEN _updateState(counted, exchange, "degraded")
                   ELSE counted
    IN _updateMetrics(updated, exchange, "error")

HealthMonitorUnchanged ==
    UNCHANGED <<headVars, fetcher, pool, riskLimits>>

recordSuccess ==
    /\ \E exchange \in HealthExchanges :
          /\ healthMonitor.metrics[exchange].successCount < MaxHealthSuccesses
          /\ healthMonitor' = Health_recordSuccess(healthMonitor, exchange)
    /\ UNCHANGED now
    /\ HealthMonitorUnchanged

recordError ==
    /\ \E exchange \in HealthExchanges :
          /\ healthMonitor.metrics[exchange].errorCount < MaxHealthErrors
          /\ healthMonitor' = Health_recordError(healthMonitor, exchange)
    /\ UNCHANGED now
    /\ HealthMonitorUnchanged

NextHealth == recordSuccess \/ recordError

(***************************************************************************)
(* RiskLimits with the default limits.  Amounts are in USD; the drawdown is *)
(* in thousandths (maxDrawdown 0.02 is 20).                                 *)
(***************************************************************************)
ExposureValues == { 0, 5000, 5001, 10000, 10001 }
LossValues == { 0, 100, 101, 250, 251, 500, 501 }
DrawdownValues == { 0, 10, 20, 21 }
PositionValues == { 5, 10, 500, 1000, 1001 }
SlippageValues == { 3, 4 }
LiquidityValues == { 5000, 10000 }

\* The values of JavaScript that the limits meet: a Decimal, a plain number, a
\* string that is no number, and the field that an update object does not have.
Dec(value) == [type |-> "Decimal", value |-> value]
Num(value) == [type |-> "number", value |-> value]
Text == [type |-> "string", value |-> 0]
Absent == [type |-> "undefined", value |-> 0]

LimitTypes ==
    { "position", "exposure", "loss", "drawdown", "slippage", "liquidity", "volume" }

LimitValues ==
    [ position |-> PositionValues, exposure |-> ExposureValues, loss |-> LossValues,
      drawdown |-> DrawdownValues, slippage |-> SlippageValues,
      liquidity |-> LiquidityValues, volume |-> { 0 } ]

\* _initializeMetrics; breaches are the limitBreached events of the last
\* updateMetrics, checked the last answer of checkLimit to a caller.
NewRiskLimits ==
    [currentMetrics |-> [dailyExposure |-> Dec(0), dailyLoss |-> Dec(0),
                         currentDrawdown |-> Dec(0)],
     breaches |-> << >>,
     checked |-> [type |-> "none", value |-> Dec(0), allowed |-> TRUE, reason |-> "none"]]

Allowed == [allowed |-> TRUE, reason |-> "none"]
Refused(reason) == [allowed |-> FALSE, reason |-> reason]

_checkPositionLimit(value) ==
    IF value < minPositionSize THEN Refused("Position size below minimum")
    ELSE IF value > maxPositionSize THEN Refused("Position size above maximum")
    ELSE Allowed

\* A metric that is no Decimal has no plus: the TypeError is caught by checkLimit.
_checkExposureLimit(r, value) ==
    IF r.currentMetrics.dailyExposure.type # "Decimal"
    THEN Refused("this.currentMetrics.dailyExposure.plus is not a function")
    ELSE IF r.currentMetrics.dailyExposure.value + value > maxDailyExposure
    THEN Refused("Daily exposure limit exceeded")
    ELSE IF value > maxTotalExposure
    THEN Refused("Single exposure limit exceeded")
    ELSE Allowed

_checkLossLimit(r, value) ==
    IF r.currentMetrics.dailyLoss.type # "Decimal"
    THEN Refused("this.currentMetrics.dailyLoss.plus is not a function")
    ELSE IF r.currentMetrics.dailyLoss.value + value > maxDailyLoss
    THEN Refused("Daily loss limit exceeded")
    ELSE IF value > maxLoss
    THEN Refused("Single loss limit exceeded")
    ELSE Allowed

_checkDrawdownLimit(value) ==
    IF value > maxDrawdown THEN Refused("Maximum drawdown exceeded") ELSE Allowed

_checkSlippageLimit(value) ==
    IF value > maxSlippage THEN Refused("Maximum slippage exceeded") ELSE Allowed

_checkLiquidityLimit(value) ==
    IF value < minLiquidity THEN Refused("Insufficient liquidity") ELSE Allowed

\* checkLimit: the table of _getLimitCheck, new Decimal(value), which throws
\* for a value that is no number, and the catch that answers the error.
checkLimit(r, type, value) ==
    IF type \notin { "position", "exposure", "loss", "drawdown", "slippage", "liquidity" }
    THEN Refused("Unknown limit type")
    ELSE IF value.type \notin { "Decimal", "number" }
    THEN Refused("[DecimalError] Invalid argument")
    ELSE CASE type = "position" -> _checkPositionLimit(value.value)
           [] type = "exposure" -> _checkExposureLimit(r, value.value)
           [] type = "loss" -> _checkLossLimit(r, value.value)
           [] type = "drawdown" -> _checkDrawdownLimit(value.value)
           [] type = "slippage" -> _checkSlippageLimit(value.value)
           [] type = "liquidity" -> _checkLiquidityLimit(value.value)

Breach(r, type, value) ==
    IF checkLimit(r, type, value).allowed THEN << >>
    ELSE << [type |-> type, value |-> value.value,
             reason |-> checkLimit(r, type, value).reason] >>

_checkMetricBreaches(r) ==
    [r EXCEPT !.breaches =
        Breach(r, "drawdown", r.currentMetrics.currentDrawdown)
            \o Breach(r, "exposure", r.currentMetrics.dailyExposure)
            \o Breach(r, "loss", r.currentMetrics.dailyLoss)]

\* Object.assign(currentMetrics, update)
Assign(old, new) == IF new = Absent THEN old ELSE new

\* The values a caller passes for a metric: Decimals, or a plain number.
MetricValues(values) == { Dec(v) : v \in values } \cup { Num(0) }

RiskLimitsUnchanged ==
    UNCHANGED <<headVars, fetcher, pool, healthMonitor>>

updateMetrics ==
    /\ \E dailyExposure \in MetricValues(ExposureValues) \cup {Absent},
          dailyLoss \in MetricValues(LossValues) \cup {Absent},
          currentDrawdown \in MetricValues(DrawdownValues) \cup {Absent} :
          riskLimits' = _checkMetricBreaches(
              [riskLimits EXCEPT
                  !.currentMetrics.dailyExposure = Assign(@, dailyExposure),
                  !.currentMetrics.dailyLoss = Assign(@, dailyLoss),
                  !.currentMetrics.currentDrawdown = Assign(@, currentDrawdown)])
    /\ UNCHANGED now
    /\ RiskLimitsUnchanged

\* A caller asks checkLimit about a value.
RiskLimits_checkLimit ==
    /\ \E type \in LimitTypes :
          \E value \in { Num(v) : v \in LimitValues[type] } \cup {Text} :
             riskLimits' = [riskLimits EXCEPT
                 !.checked = [type |-> type, value |-> value,
                              allowed |-> checkLimit(riskLimits, type, value).allowed,
                              reason |-> checkLimit(riskLimits, type, value).reason]]
    /\ UNCHANGED now
    /\ RiskLimitsUnchanged

NextRisk == updateMetrics \/ RiskLimits_checkLimit

(***************************************************************************)
(* BaseExchange.fetchPrice with the exchange's own CircuitBreaker.         *)
(***************************************************************************)
\* rateLimiter is the exchange's RequestQueue: the fetches that wait for the
\* PQueue or run.  A running fetch is at an attempt, which waits for the
\* venue's answer ("requesting") or for the retry delay to end ("waiting").
\* venueFailure is the time of the last request to the venue that failed (-1:
\* none yet); priceCache holds at most one entry; last is the answer of the
\* fetchPrice call just made, "none" once anything else has happened.
FetchName == "safetrade"

NewExchange ==
    [monitor |-> NewMonitor, priceCache |-> << >>, venueFailure |-> -1,
     rateLimiter |-> [ops |-> << >>, queues |-> [exchange \in {FetchName} |-> NewQueue]],
     last |-> "none"]

FetcherUnchanged ==
    UNCHANGED <<headVars, pool, healthMonitor, riskLimits>>

_getCachedPrice(exchange, t) ==
    exchange.priceCache # << >> /\ t - exchange.priceCache[1].timestamp < priceCacheMs

\* fetchPrice up to its await: the breaker's answer, whose error the catch
\* counts, the cached price, or the operation handed to the request queue,
\* which starts its first attempt when the PQueue lets it.
Exchange_fetchPrice(exchange, t) ==
    LET checked == isOpen(exchange.monitor, t)
        rejected == exchange.monitor.state = "open" /\ checked.state = "open"
    IN IF rejected
       THEN [exchange EXCEPT !.monitor = onError(checked, t), !.last = "rejected"]
       ELSE IF _getCachedPrice(exchange, t)
       THEN [exchange EXCEPT !.monitor = checked, !.last = "cached"]
       ELSE [exchange EXCEPT
                !.monitor = checked,
                !.rateLimiter =
                    _tryToStartAnother(
                        [@ EXCEPT !.ops = Append(@, [exchange |-> FetchName,
                                                     state |-> "queued", startedAt |-> 0,
                                                     attempt |-> 1, phase |-> "requesting",
                                                     at |-> 0])],
                        FetchName, t),
                !.last = "enqueued"]

\* A running fetch's timer: the end of the wait before the next attempt, or the
\* time by which the venue has answered the request, which went out when the
\* fetch started or when the wait ended.
Due(op) ==
    IF op.phase = "waiting" THEN op.at + retryDelay * Pow2(op.attempt - 1)
    ELSE IF op.attempt = 1 THEN op.startedAt + MaxLatency
    ELSE op.at + MaxLatency

\* The operation of a fetch has settled: the PQueue forgets it and starts the
\* next one it can.
Settled(rq, id, t) ==
    _tryToStartAnother(
        [rq EXCEPT !.ops = SubSeq(@, 1, id - 1) \o SubSeq(@, id + 1, Len(@))],
        FetchName, t)

\* _fetchPriceWithRetry at the answer of the venue to the attempt's request: a
\* valid price ends the fetch (onSuccess, the price is cached); a failure is
\* followed by the wait before the next attempt or, at the last attempt, ends
\* the fetch with the error that fetchPrice's catch counts.
_fetchPriceWithRetry(exchange, id, success, t) ==
    LET op == exchange.rateLimiter.ops[id]
    IN IF success
       THEN [exchange EXCEPT
                !.monitor = onSuccess(@),
                !.priceCache = << [timestamp |-> t, cacheTimestamp |-> t] >>,
                !.rateLimiter = Settled(@, id, t),
                !.last = "none"]
       ELSE IF op.attempt < retryAttempts
       THEN [exchange EXCEPT
                !.venueFailure = t,
                !.rateLimiter.ops[id].phase = "waiting",
                !.rateLimiter.ops[id].at = t,
                !.last = "none"]
       ELSE [exchange EXCEPT
                !.monitor = onError(@, t),
                !.venueFailure = t,
                !.rateLimiter = Settled(@, id, t),
                !.last = "none"]

fetchPrice ==
    /\ fetcher.monitor.failures < MaxFetchFailures
    /\ Len(Exchange_fetchPrice(fetcher, now).rateLimiter.ops) <= MaxFetches
    /\ fetcher' = Exchange_fetchPrice(fetcher, now)
    /\ UNCHANGED now
    /\ FetcherUnchanged

\* The venue answers the request of a running fetch.
Fetch_answer(id) ==
    /\ id \in 1..Len(fetcher.rateLimiter.ops)
    /\ fetcher.rateLimiter.ops[id].state = "running"
    /\ fetcher.rateLimiter.ops[id].phase = "requesting"
    /\ \E success \in BOOLEAN : fetcher' = _fetchPriceWithRetry(fetcher, id, success, now)
    /\ UNCHANGED now
    /\ FetcherUnchanged

\* The wait between two attempts ends: the next request goes out.
Fetch_retry(id) ==
    /\ id \in 1..Len(fetcher.rateLimiter.ops)
    /\ fetcher.rateLimiter.ops[id].state = "running"
    /\ fetcher.rateLimiter.ops[id].phase = "waiting"
    /\ Due(fetcher.rateLimiter.ops[id]) <= now
    /\ fetcher' = [fetcher EXCEPT !.rateLimiter.ops[id].attempt = @ + 1,
                                  !.rateLimiter.ops[id].phase = "requesting",
                                  !.rateLimiter.ops[id].at = now,
                                  !.last = "none"]
    /\ UNCHANGED now
    /\ FetcherUnchanged

\* The interval timer of the exchange's PQueue ticks.
Fetch_interval ==
    /\ fetcher.rateLimiter.queues[FetchName].running
    /\ fetcher.rateLimiter.queues[FetchName].next <= now
    /\ fetcher' =
          [fetcher EXCEPT
              !.rateLimiter =
                  _onInterval([@ EXCEPT !.queues[FetchName].next =
                                           @ + _getConfig(FetchName).interval],
                              FetchName, now),
              !.last = "none"]
    /\ UNCHANGED now
    /\ FetcherUnchanged

\* The timeout that resumes the PQueue's cleared interval.
Fetch_resume ==
    /\ fetcher.rateLimiter.queues[FetchName].resume
    /\ fetcher.rateLimiter.queues[FetchName].intervalEnd <= now
    /\ LET resumed == _onInterval(fetcher.rateLimiter, FetchName, now)
       IN fetcher' =
             [fetcher EXCEPT
                 !.rateLimiter =
                     [resumed EXCEPT
                         !.queues[FetchName] =
                             [_initializeIntervalIfNeeded(@, _getConfig(FetchName), now)
                                 EXCEPT !.resume = FALSE]],
                 !.last = "none"]
    /\ UNCHANGED now
    /\ FetcherUnchanged

\* Time passes once the timers that are due have fired.
FetchTick ==
    /\ now < MaxFetchNow
    /\ \A id \in 1..Len(fetcher.rateLimiter.ops) :
          LET op == fetcher.rateLimiter.ops[id]
          IN op.state = "running" => Due(op) > now
    /\ LET queue == fetcher.rateLimiter.queues[FetchName]
       IN /\ queue.running => queue.next > now
          /\ queue.resume => queue.intervalEnd > now
    /\ now' = now + FetchStep
    /\ fetcher' = [fetcher EXCEPT !.last = "none"]
    /\ FetcherUnchanged

(***************************************************************************)
(* Specifications.                                                         *)
(***************************************************************************)
HealthyStatus == [state |-> "healthy", successCount |-> 0, errorCount |-> 0]
\* The status after errorThreshold errors recorded in a row.
DegradedStatus == [state |-> "degraded", successCount |-> 0, errorCount |-> 5]

InitBalance ==
    /\ balances = << >>
    /\ reservedBalances = << >>
    /\ reserveTimers = << >>
    /\ reservedFor = << >>
    /\ lastReserve = NoReserve

InitBreaker ==
    /\ monitors = << >>
    /\ cbFails = [n \in BreakerNames |-> 0]
    /\ cbSucc = [n \in BreakerNames |-> 0]
    /\ cbVia = [n \in BreakerNames |-> "init"]

\* The components built by their constructors.
InitApps ==
    /\ ogre = NewTradeOgre
    /\ feed = NoPrices
    /\ checks = NoChecks
    /\ depth = NoAnalysis
    /\ settle = NoSettlements
    /\ app = NewProcess
    /\ requestQueue = NoRequests
    /\ fetcher = NewExchange
    /\ pool = NoPool
    /\ healthMonitor = NewHealthMonitor
    /\ riskLimits = NewRiskLimits

InitParts ==
    /\ orders = << >>
    /\ orderTimeouts = << >>
    /\ queues = [x \in ExecExchanges |-> << >>]
    /\ timeouts = << >>
    /\ timerCallbacks = {}
    /\ events = {}
    /\ createCalls = [k \in CallKeys |-> 0]
    /\ atomic = [e \in ExecutionIds |-> IdleExecution]
    /\ trade = IdleTrade
    /\ orderUpdates = 0
    /\ heartbeat = NoConnection
    /\ limiter = NoCalls
    /\ InitApps

InitComponents ==
    /\ InitParts
    /\ wsm = NoSockets

InitExecutors ==
    /\ InitComponents
    /\ positionManager = NewPositionManager(DefaultPositionConfig)

Init ==
    /\ now = 0
    /\ InitBalance
    /\ InitBreaker
    /\ InitExecutors
    /\ engine = "atomic"
    /\ health = [x \in ExecExchanges |-> HealthyStatus]
    /\ detector = NewDetector(DefaultConfig)

\* The position manager is built with the default config or with a caller's.
InitPosition ==
    /\ now = 0
    /\ InitBalance
    /\ InitBreaker
    /\ InitComponents
    /\ engine = "atomic"
    /\ health = [x \in ExecExchanges |-> HealthyStatus]
    /\ detector = NewDetector(DefaultConfig)
    /\ positionManager \in { NewPositionManager(config) : config \in PositionConfigs }

\* The executors start with the buy venue funded (updateBalance) and with the
\* venues healthy or degraded (recordError).
InitExec ==
    /\ now = 0
    /\ reservedBalances = << >>
    /\ reserveTimers = << >>
    /\ reservedFor = << >>
    /\ lastReserve = NoReserve
    /\ \E amount \in {20, 30} :
          balances = MapSet(<< >>, _getKey(<<"S">>, USDT), amount)
    /\ InitBreaker
    /\ InitExecutors
    /\ engine \in {"atomic", "trade"}
    /\ health \in [ExecExchanges -> {HealthyStatus, DegradedStatus}]
    /\ detector = NewDetector(DefaultConfig)

\* The program runs the TradeExecutor.
InitTrade ==
    /\ InitExec
    /\ engine = "trade"

\* The detector is built with any of the configurations.
InitDetector ==
    /\ now = 0
    /\ InitBalance
    /\ InitBreaker
    /\ InitExecutors
    /\ engine = "atomic"
    /\ health = [x \in ExecExchanges |-> HealthyStatus]
    /\ detector \in { NewDetector(config) : config \in Configs }

\* The circuit breaker a venue's connector keeps under its own name.
BreakerOf(exchange) == IF exchange = <<"S">> THEN "safetrade" ELSE "tradeogre"

\* A monitor after k failed price fetches in a row at time t.
RECURSIVE FailedFetches(_, _)
FailedFetches(k, t) ==
    IF k = 0 THEN NewMonitor ELSE onError(FailedFetches(k - 1, t), t)

\* The atomic executor started after the buy venue's price fetches failed
\* failureThreshold times, or after the sell venue's did.
InitTripped ==
    /\ now = 0
    /\ reservedBalances = << >>
    /\ reserveTimers = << >>
    /\ reservedFor = << >>
    /\ lastReserve = NoReserve
    /\ balances = MapSet(<< >>, _getKey(<<"S">>, USDT), 30)
    /\ \E n \in BreakerNames :
          /\ monitors = MapSet(<< >>, n, FailedFetches(failureThreshold, 0))
          /\ cbFails = [x \in BreakerNames |-> IF x = n THEN failureThreshold ELSE 0]
          /\ cbVia = [x \in BreakerNames |-> IF x = n THEN "onError" ELSE "init"]
    /\ cbSucc = [x \in BreakerNames |-> 0]
    /\ InitExecutors
    /\ engine = "atomic"
    /\ health = [x \in ExecExchanges |-> HealthyStatus]
    /\ detector = NewDetector(DefaultConfig)

\* The sockets in the middle of a reconnection loop, with the clock set back to
\* 0: the first socket opened, failed its heartbeat, reported an error and
\* closed, so that two reconnections were scheduled; both opened a socket that
\* reported an error and closed in the same instant.
InitWsmLoop ==
    /\ now = 0
    /\ InitBalance
    /\ InitBreaker
    /\ InitParts
    /\ engine = "atomic"
    /\ health = [x \in ExecExchanges |-> HealthyStatus]
    /\ detector = NewDetector(DefaultConfig)
    /\ positionManager = NewPositionManager(DefaultPositionConfig)
    /\ wsm = [NoSockets EXCEPT
                 !.errorListeners = 1,
                 !.created = 1, !.connection = 1, !.reconnectAttempts = 1,
                 !.failedAttempts = 2,
                 !.breaker = FailedFetches(3, 0),
                 !.timers = { [due |-> reconnectDelay * 2, attempts |-> 1, at |-> 0,
                               n |-> n, copy |-> 0] : n \in {1, 2} }]

NextBalance ==
    \/ \E e \in Exchanges, c \in Currencies, a \in BalanceAmounts : updateBalance(e, c, a)
    \/ \E e \in Exchanges, c \in Currencies, a \in ReserveAmounts, o \in OrderIds :
          reserveBalance(e, c, a, o)
    \/ \E e \in Exchanges, c \in Currencies, o \in OrderIds : releaseBalance(e, c, o)
    \/ _setReserveTimeout
    \/ Tick

NextBreaker ==
    \/ \E n \in BreakerNames : IsOpen(n)
    \/ \E n \in BreakerNames : OnSuccess(n)
    \/ \E n \in BreakerNames : OnError(n)
    \/ \E n \in BreakerNames : reset(n)
    \/ Tick

NextOrders ==
    \/ \E id \in 1..Len(orders), status \in StatusUpdates : updateOrderStatus(id, status)
    \/ \E id \in 1..Len(orders) : CancelOrder(id)
    \/ _setOrderTimeout

NextAtomic ==
    \/ \E e \in ExecutionIds, o \in Opportunities : Atomic_executeArbitrage(e, o)
    \/ \E e \in ExecutionIds, b \in FeedPrices, s \in FeedPrices :
          Atomic_getCurrentPrices(e, b, s)
    \/ \E e \in ExecutionIds : Atomic_buyOrderStage(e)
    \/ \E e \in ExecutionIds : Atomic_sellOrderStage(e)
    \/ \E e \in ExecutionIds : Atomic_waitForBuyFill(e)
    \/ \E e \in ExecutionIds : Atomic_waitForSellFill(e)
    \/ \E e \in ExecutionIds : Atomic_orderFillTimeout(e)

NextTimer ==
    \E e \in ExecutionIds, kind \in TimerKinds : ExecutionTimer_fire(e, kind)

\* One execution with its orders and its timers.
TimedExecutions == { 1 }
NextTimed ==
    \/ \E e \in TimedExecutions, o \in Opportunities : Atomic_executeArbitrage(e, o)
    \/ \E e \in TimedExecutions, b \in FeedPrices, s \in FeedPrices :
          Atomic_getCurrentPrices(e, b, s)
    \/ \E e \in TimedExecutions : Atomic_buyOrderStage(e)
    \/ \E e \in TimedExecutions : Atomic_sellOrderStage(e)
    \/ \E e \in TimedExecutions : Atomic_waitForBuyFill(e)
    \/ \E e \in TimedExecutions : Atomic_waitForSellFill(e)
    \/ \E e \in TimedExecutions : Atomic_orderFillTimeout(e)
    \/ NextOrders
    \/ NextTimer

NextTrade ==
    \/ \E o \in Opportunities : Trade_executeArbitrage(o)
    \/ \E b \in FeedPrices, s \in FeedPrices : Trade_getCurrentPrice(b, s)
    \/ Trade_monitorFilled
    \/ Trade_monitorCancelled
    \/ Trade_monitorTimeout

NextHeartbeat ==
    \/ startMonitoring
    \/ stopMonitoring
    \/ receivePong
    \/ _checkConnection
    \/ pingTimeout
    \/ BeatTick

NextWsm ==
    \/ Wsm_on
    \/ Wsm_connect
    \/ \E id \in 1..MaxSockets : Wsm_onOpen(id)
    \/ \E id \in 1..MaxSockets : Wsm_onError(id)
    \/ \E id \in 1..MaxSockets : Wsm_onClose(id)
    \/ Wsm_connectionFailed
    \/ Wsm_reconnect
    \/ WsmTick

\* The caller connects, the socket opens and closes, the caller disconnects.
NextWsmStop ==
    \/ Wsm_connect
    \/ Wsm_onMessage
    \/ \E id \in 1..MaxSockets : Wsm_onOpen(id)
    \/ \E id \in 1..MaxSockets : Wsm_onClose(id)
    \/ Wsm_disconnect
    \/ Wsm_reconnect
    \/ WsmTick

NextWsmLoop ==
    \/ \E id \in 1..MaxSockets : Wsm_onOpen(id)
    \/ \E id \in 1..MaxSockets : Wsm_onError(id)
    \/ \E id \in 1..MaxSockets : Wsm_onClose(id)
    \/ Wsm_connectionFailed
    \/ Wsm_reconnect
    \/ WsmTick

NextLimiter ==
    \/ executeWithRetry
    \/ Limiter_run
    \/ Limiter_operationSucceeds
    \/ Limiter_operationFails
    \/ Limiter_retry
    \/ LimiterTick

NextDetector ==
    \/ detectArbitrage
    \/ DetectorTick

NextOgre ==
    \/ _handleTradeUpdate
    \/ _handleOrderBookUpdate
    \/ Ogre_updateBtcPrice
    \/ OgreTick

NextFeed ==
    \/ Wsm_onMessage
    \/ FeedTick

NextChecks == ValidatePrices

NextDepth == AnalyzeDepth

NextSettle ==
    \/ settleArbitrage
    \/ _confirmBuyOrder
    \/ _confirmSellOrder
    \/ _verifyBalances
    \/ _finalizeSettlement
    \/ Settle_cancelOrderAnswered

NextPosition ==
    \/ openPosition
    \/ updatePosition
    \/ closePosition

NextApp ==
    \/ main
    \/ Sigint
    \/ \E exchange \in Venues :
          \/ registerExchange(exchange)
          \/ Connector_connect(exchange)
          \/ Connector_disconnect(exchange)
          \/ Connector_reconnect(exchange)
          \/ Connector_fetchPrice(exchange)
          \/ \E id \in 1..MaxConnectorSockets :
                \/ Connector_onOpen(exchange, id)
                \/ Connector_handleDisconnect(exchange, id)
                \/ Connector_handleError(exchange, id)

NextQueue ==
    \/ RqTick
    \/ \E exchange \in QueueExchanges : Rq_enqueue(exchange) \/ Rq_interval(exchange)
    \/ \E exchange \in QueueExchanges : Rq_resume(exchange)
    \/ \E id \in 1..MaxOperations : Rq_settle(id) \/ Rq_abort(id)

NextFetch ==
    \/ fetchPrice
    \/ \E id \in 1..MaxFetches : Fetch_answer(id) \/ Fetch_retry(id)
    \/ Fetch_interval
    \/ Fetch_resume
    \/ FetchTick

NextExec == NextAtomic \/ NextTrade \/ NextOrders

Next == NextBalance \/ NextBreaker \/ NextExec \/ NextHeartbeat \/ NextWsm \/ NextLimiter
            \/ NextDetector \/ NextOgre \/ NextFeed
            \/ NextChecks \/ NextDepth \/ NextSettle
            \/ NextPosition \/ NextApp \/ NextQueue
            \/ NextFetch \/ NextWsmStop \/ NextTimer
            \/ NextPool \/ NextHealth \/ NextRisk

Spec == Init /\ [][Next]_vars
SpecBalance == Init /\ [][NextBalance]_vars
SpecBreaker == Init /\ [][NextBreaker]_vars
SpecExec == InitExec /\ [][NextExec]_vars
SpecTrade == InitTrade /\ [][NextTrade \/ NextOrders]_vars
SpecTripped == InitTripped /\ [][NextAtomic \/ NextOrders]_vars
SpecHeartbeat == Init /\ [][NextHeartbeat]_vars
SpecWsm == Init /\ [][NextWsm]_vars
SpecLimiter == Init /\ [][NextLimiter]_vars
SpecDetector == InitDetector /\ [][NextDetector]_vars
SpecOgre == Init /\ [][NextOgre]_vars
SpecFeed == Init /\ [][NextFeed]_vars
SpecChecks == Init /\ [][NextChecks]_vars
SpecDepth == Init /\ [][NextDepth]_vars
SpecSettle == Init /\ [][NextSettle]_vars
SpecPosition == InitPosition /\ [][NextPosition]_vars
SpecApp == Init /\ [][NextApp]_vars
SpecQueue == Init /\ [][NextQueue]_vars
SpecFetch == Init /\ [][NextFetch]_vars
SpecWsmStop == Init /\ [][NextWsmStop]_vars
SpecTimer == InitExec /\ [][NextTimed]_vars
SpecPool == Init /\ [][NextPool]_vars
SpecHealth == Init /\ [][NextHealth]_vars
SpecRisk == Init /\ [][NextRisk]_vars
SpecWsmLoop == InitWsmLoop /\ [][NextWsmLoop]_vars

(***************************************************************************)
(* Claims about BalanceManager.                                            *)
(***************************************************************************)
ReservedFor(exchange, currency) ==
    SumAmounts(reservedBalances,
               { rk \in DOMAIN reservedBalances :
                    reservedFor[rk] = _getKey(exchange, currency) })

\* C1: for every venue and currency, getAvailableBalance equals
\* max(0, total - sum of the live reservations made for that same venue and
\* currency); reservations made for another venue or currency never change it.
C1_AvailableCountsOwnReservationsOnly ==
    \A e \in Exchanges, c \in Currencies :
        getAvailableBalance(e, c) = Max(0, getBalance(e, c) - ReservedFor(e, c))

\* C13: reserveBalance followed by releaseBalance of the same reservation,
\* with no other mutation in between, returns getAvailableBalance for that
\* venue and currency to the value it had before the reserve.
C13_ReserveReleaseRoundTrip ==
    [][\A e \in Exchanges, c \in Currencies, o \in OrderIds :
          (lastReserve.reserveKey = reserveKeyOf(e, c, o) /\ releaseBalance(e, c, o))
              => getAvailableBalance(e, c)' = lastReserve.before]_vars

\* C14: a reservation that is not released is removed by its timer
\* reserveTimeoutMs after it was made.
C14_ExpiresAfterReserveTimeout ==
    [][_setReserveTimeout =>
          \A rk \in DOMAIN reservedBalances \ DOMAIN reservedBalances' :
              now = reservedBalances[rk].timestamp + reserveTimeoutMs]_vars

\* C12: with the total balance of a (venue, currency) unchanged, no
\* reserveBalance, releaseBalance or expiry makes the sum of its live
\* reservations exceed the total.
C12_ReservationsWithinTotal ==
    [][\A e \in Exchanges, c \in Currencies :
          (/\ getBalance(e, c)' = getBalance(e, c)
           /\ ReservedFor(e, c) <= getBalance(e, c))
              => ReservedFor(e, c)' <= getBalance(e, c)']_vars

(***************************************************************************)
(* Claims about CircuitBreaker.                                            *)
(***************************************************************************)
\* C8: for every venue the breaker never goes from closed directly to
\* half-open: every entry into half-open comes from open.
C8_NoClosedToHalfOpen ==
    [][\A n \in BreakerNames :
          (StateOf(n) # "half-open" /\ StateOf(n)' = "half-open")
              => StateOf(n) = "open"]_vars

C8_Witness ==
    \E n \in BreakerNames : StateOf(n) = "half-open" /\ cbVia[n] = "isOpen"

\* C9: starting from a closed breaker with no failures counted,
\* failureThreshold failures in a row open the breaker and
\* failureThreshold - 1 failures in a row leave it closed.
C9_ThresholdOpens ==
    \A n \in BreakerNames :
        /\ cbFails[n] >= failureThreshold => StateOf(n) = "open"
        /\ cbFails[n] \in 1..(failureThreshold - 1) => StateOf(n) = "closed"

C9_Witness ==
    \E n, m \in BreakerNames :
        /\ cbFails[n] = failureThreshold /\ StateOf(n) = "open"
        /\ cbFails[m] = failureThreshold - 1 /\ StateOf(m) = "closed"

\* C10: a half-open breaker closes only after recoveryThreshold (3)
\* consecutive successes; fewer successes leave it half-open.
C10_ClosesAfterThreeSuccesses ==
    \A n \in BreakerNames :
        (StateOf(n) = "closed" /\ cbVia[n] = "onSuccess") => cbSucc[n] >= 3

\* C11: whenever a venue's breaker is half-open, the next failure reported
\* for that venue returns it to open, whatever led to the half-open state.
C11_HalfOpenFailureReopens ==
    [][\A n \in BreakerNames :
          (StateOf(n) = "half-open" /\ OnError(n)) => StateOf(n)' = "open"]_vars

(***************************************************************************)
(* Claims about the executors and OrderManager.                            *)
(***************************************************************************)
FailureEvent(executionId) == [type |-> "executionFailure", executionId |-> executionId]

\* Neither executor records a Position, so after a failure the bought amount
\* must be absent: no buy order, or a buy order that is cancelled.
EndedAsClaimed(succeeded, failureEmitted, buyAtEnd, sellAtEnd) ==
    \/ succeeded /\ buyAtEnd = "filled" /\ sellAtEnd = "filled"
    \/ ~succeeded /\ failureEmitted /\ buyAtEnd \in {"none", "cancelled"}

\* TradeExecutor is not an emitter: it reports a failure only by returning false.
TradeFailureEmitted == FALSE

\* C2: every execution that ends is either settled with both orders filled,
\* or failed with a failure event emitted and the bought amount absent or
\* recorded as exactly one new Position.
C2_EndsSettledOrFailedClean ==
    /\ \A e \in ExecutionIds :
          atomic[e].pc = "done" =>
              EndedAsClaimed(atomic[e].result = "settled",
                             FailureEvent(e) \in events,
                             atomic[e].buyAtEnd, atomic[e].sellAtEnd)
    /\ \A i \in 1..Len(trade.ended) :
          ~trade.ended[i].dropped =>
              EndedAsClaimed(trade.ended[i].result, TradeFailureEmitted,
                             trade.ended[i].buyAtEnd, trade.ended[i].sellAtEnd)

\* C3: within one execution createOrder is called at most once for the buy
\* order and at most once for the sell order, on every path.
C3_OrdersCreatedAtMostOnce == \A k \in CallKeys : createCalls[k] <= 1

C3_Witness ==
    \E e \in ExecutionIds :
        /\ atomic[e].pc = "done"
        /\ atomic[e].buyOrder # NoOrder
        /\ atomic[e].sellOrder = NoOrder
        /\ createCalls[<<<<"atomic", e>>, "buy">>] = 1
        /\ createCalls[<<<<"atomic", e>>, "sell">>] = 1

\* C4: AtomicExecutor runs at most one execution per buy venue at a time:
\* no two executions of one buy venue are both between their balance check
\* and their completion.
InFlight(e) == atomic[e].pc \notin {"idle", "done"}

C4_OneExecutionPerBuyVenue ==
    \A e1, e2 \in ExecutionIds :
        (e1 # e2 /\ InFlight(e1) /\ InFlight(e2))
            => atomic[e1].opportunity.buyExchange # atomic[e2].opportunity.buyExchange

\* C5: once the buy order is created the executor holds a reservation on the
\* buy venue's quote balance for notional x 1.01 and on the sell venue's base
\* balance for the base amount.
C5_ReservedBeforeBuy ==
    \A e \in ExecutionIds :
        atomic[e].buyOrder # NoOrder =>
            LET opportunity == atomic[e].opportunity
            IN /\ 100 * getReservedBalance(opportunity.buyExchange, USDT)
                    >= 101 * opportunity.position.usdtAmount
               /\ getReservedBalance(opportunity.sellExchange, VRSC)
                    >= opportunity.position.vrscAmount

\* C6: the sell order is created only after the buy order is filled.
C6_SellAfterBuyFilled ==
    \A e \in ExecutionIds :
        atomic[e].sellOrder # NoOrder => atomic[e].buyAtSell = "filled"

\* C7: once an order's status is filled or cancelled it never changes again.
C7_TerminalStatusIsFinal ==
    [][\A id \in 1..Len(orders) :
          orders[id].status \in {"filled", "cancelled"}
              => orders'[id].status = orders[id].status]_vars

\* C18: while a TradeExecutor execution is in progress a further
\* executeArbitrage call is dropped (it returns false and creates no order),
\* and the busy state is cleared whenever the running execution ends.
C18_BusyDropsAndClears ==
    /\ [](trade.isExecuting <=> trade.pc # "idle")
    /\ [](\A i \in 1..Len(trade.ended) :
             trade.ended[i].dropped =>
                 /\ trade.ended[i].result = FALSE
                 /\ createCalls[<<<<"trade", trade.ended[i].n>>, "buy">>] = 0
                 /\ createCalls[<<<<"trade", trade.ended[i].n>>, "sell">>] = 0)
    /\ [][(trade.isExecuting /\ trade.calls' = trade.calls + 1)
             => /\ trade.ended' = Append(trade.ended, trade.ended'[Len(trade.ended')])
                /\ trade.ended'[Len(trade.ended')].dropped
                /\ trade.pc' = trade.pc
                /\ trade.isExecuting'
                /\ orders' = orders]_vars

C18_Witness ==
    /\ ~trade.isExecuting
    /\ \E i, j \in 1..Len(trade.ended) :
          /\ i < j
          /\ trade.ended[i].dropped
          /\ ~trade.ended[j].dropped
          /\ trade.ended[j].buyAtEnd # "none"

(***************************************************************************)
(* Claims about HeartbeatManager.                                          *)
(***************************************************************************)
\* C15: a beat counts as missed only if no pong arrived within timeout of its
\* ping, so the count of missed beats grows (and connectionFailed follows)
\* only when the last ping is at least timeout old.
C15_MissedOnlyAfterTimeout ==
    [][heartbeat.missedBeats' > heartbeat.missedBeats
          => now - heartbeat.lastPing >= timeout]_vars

(***************************************************************************)
(* Claims about WebSocketManager.                                          *)
(***************************************************************************)
\* C16: after a stream failure preceded by n failed reconnection attempts in a
\* row, the next attempt is scheduled reconnectDelay * 2^n later, and after
\* maxReconnectAttempts failed attempts in a row none is scheduled.
C16_BackoffDoublesPerFailedAttempt ==
    \A timer \in wsm.timers :
        /\ timer.n < maxReconnectAttempts
        /\ timer.due - timer.at = reconnectDelay * Pow2(timer.n)

(***************************************************************************)
(* Claims about RateLimiter.                                               *)
(***************************************************************************)
\* C17: while 5 or more errors of the venue lie within the last 5 minutes,
\* no operation is started for it: not for a new call, not for a queued
\* call, not as a further retry of a call in progress.
C17_NoOperationDuringBackoff ==
    [][limiter.opStarts' > limiter.opStarts => ~_shouldBackoff]_vars

\* C19: no order is placed for an opportunity while the circuit breaker of its
\* buy venue or of its sell venue is not closed.
C19_NoOrderWhileBreakerNotClosed ==
    [][\A e \in ExecutionIds :
          (\/ atomic[e].buyOrder = NoOrder /\ atomic'[e].buyOrder # NoOrder
           \/ atomic[e].sellOrder = NoOrder /\ atomic'[e].sellOrder # NoOrder)
              => /\ StateOf(BreakerOf(atomic[e].opportunity.buyExchange)) = "closed"
                 /\ StateOf(BreakerOf(atomic[e].opportunity.sellExchange)) = "closed"]_vars

\* An order placed for an opportunity whose buy venue's breaker is open.
C19_Counterexample ==
    \A e \in ExecutionIds :
        atomic[e].buyOrder # NoOrder
            => /\ StateOf(BreakerOf(atomic[e].opportunity.buyExchange)) = "closed"
               /\ StateOf(BreakerOf(atomic[e].opportunity.sellExchange)) = "closed"

\* C20: every opportunity returned by detectArbitrage has sellPrice > buyPrice,
\* a spread of at least minSpreadPercent percent, an estimated net profit of at
\* least minProfitUSD, and both source prices no older than maxAge (5 s), for
\* every configuration of the thresholds.
C20_OpportunitiesMeetThresholds ==
    \A i \in 1..Len(detector.last.opportunities) :
        LET opportunity == detector.last.opportunities[i]
            config == detector.config
        IN /\ opportunity.sellPrice > opportunity.buyPrice
           /\ ~FracLT(opportunity.spread.num, opportunity.spread.den,
                      config.minSpreadPercent, 10)
           /\ opportunity.profit >= config.minProfitUSD * 100000
           /\ \A k \in 1..Len(detector.last.prices) :
                 detector.last.prices[k].exchange
                         \in {opportunity.buyExchange, opportunity.sellExchange}
                     => detector.last.at - detector.last.prices[k].timestamp <= maxAge

\* A returned opportunity whose spread is below minSpreadPercent percent.
C20_Counterexample ==
    \A i \in 1..Len(detector.last.opportunities) :
        1000 * (detector.last.opportunities[i].sellPrice
                    - detector.last.opportunities[i].buyPrice)
            >= detector.config.minSpreadPercent * detector.last.opportunities[i].buyPrice

\* C21: a tick from the venue quoted in BTC produces no price in USDT while the
\* BTC/USDT bridge rate is missing or older than its validity window.
C21_NoPriceOnStaleBridge ==
    [][ogre'.cached > ogre.cached
          => /\ ogre.btcUsdtPrice # 0
             /\ now - ogre.lastBtcUpdate <= priceValidityMs]_vars

\* A price cached from a bridge rate older than the venue's own refresh interval.
C21_Counterexample ==
    ogre.priceCache # << >>
        => ogre.priceCache[1].timestamp - ogre.lastBtcUpdate <= btcUpdateInterval

\* The prices of the venue accepted within priceValidityMs before time t.
RecentlyAccepted(t) ==
    LET recent == SelectSeq(feed.emitted,
                            LAMBDA entry : entry.timestamp > t - priceValidityMs)
    IN [i \in 1..Len(recent) |-> recent[i].price]

\* C22: when the venue has recently accepted prices, a tick whose price differs
\* from their mean by more than maxPriceDeviation (10%) is not emitted as a price
\* and does not become the venue's last price.
C22_DeviatingTickRejected ==
    [][(feed'.emitted # feed.emitted \/ feed'.lastPrices # feed.lastPrices)
          => LET recentPrices == RecentlyAccepted(now)
                 price == feed'.lastPrices[1].price
             IN Len(recentPrices) > 0
                    => 10 * Abs(price * Len(recentPrices) - SumPrices(recentPrices))
                           <= SumPrices(recentPrices)]_vars

\* An emitted price more than 10% off the mean of the prices emitted for the
\* venue within priceValidityMs before it.
C22_Counterexample ==
    \A j \in 1..Len(feed.emitted) :
        LET before == SelectSeq(SubSeq(feed.emitted, 1, j - 1),
                                LAMBDA entry : entry.timestamp
                                    > feed.emitted[j].timestamp - priceValidityMs)
            prior == [k \in 1..Len(before) |-> before[k].price]
        IN Len(prior) > 0
               => 10 * Abs(feed.emitted[j].price * Len(prior) - SumPrices(prior))
                      <= SumPrices(prior)

\* The current price differs from the opportunity's by more than 0.3% of it.
Moved(current, price) == 1000 * Abs(current - price) > 3 * price

\* C23: an opportunity is rejected whenever the current buy price or the current
\* sell price differs from the opportunity's price by more than 0.3%, in the
\* opportunity validator and in each executor's pre-trade check alike.
C23_SlippageRejectedEverywhere ==
    (/\ checks.currentPrices # << >>
     /\ \/ Moved(checks.currentPrices[1].buy, checks.opportunity.buyPrice)
        \/ Moved(checks.currentPrices[1].sell, checks.opportunity.sellPrice))
        => ~checks.validator /\ ~checks.trade /\ ~checks.atomic

\* The same for the opportunity validator and the TradeExecutor alone.
C23_Counterexample ==
    (/\ checks.currentPrices # << >>
     /\ Moved(checks.currentPrices[1].buy, checks.opportunity.buyPrice))
        => ~checks.validator /\ ~checks.trade

\* A walk of targetAmount against one side fills completely at an average price
\* within 0.3% of the side's best price.
FillsWithinSlippage(levels, targetAmount) ==
    /\ levels # << >>
    /\ LET walk == WalkOrders(levels, targetAmount,
                              [totalCost |-> 0, filledAmount |-> 0, remainingAmount |-> 0])
       IN /\ walk.remainingAmount = 0
          /\ 1000 * Abs(walk.totalCost - levels[1][1] * walk.filledAmount)
                 <= 3 * levels[1][1] * walk.filledAmount

\* C24: analyzeDepth reports isExecutable = true exactly when the buy walked
\* against the asks and the sell walked against the bids both fill completely
\* with an average price within maxSlippage (0.3%) of the side's best price.
C24_ExecutableIffBothSidesFill ==
    depth.calls > 0
        => (depth.result.isExecutable
               <=> /\ FillsWithinSlippage(depth.orderbook.asks, depth.targetAmount)
                   /\ FillsWithinSlippage(depth.orderbook.bids, depth.targetAmount))

\* Whenever both sides fill at their best price, the book is reported executable.
C24_Counterexample ==
    (/\ depth.calls > 0
     /\ Len(depth.orderbook.asks) = 1 /\ depth.orderbook.asks[1][2] >= depth.targetAmount
     /\ Len(depth.orderbook.bids) = 1 /\ depth.orderbook.bids[1][2] >= depth.targetAmount)
        => depth.result.isExecutable

\* C25: when the buy order is not confirmed filled by the confirmation step,
\* settleArbitrage returns success = false, emits settlementFailed and cancels
\* the buy order.
C25_FailedBuyConfirmationCancels ==
    \A id \in 1..Len(settle.settlements) :
        settle.settlements[id].failedIn = "buyConfirmation"
            => /\ \E i \in 1..Len(settle.results) :
                     settle.results[i] = [settlementId |-> id, success |-> FALSE]
               /\ \E i \in 1..Len(settle.events) :
                     settle.events[i] = [type |-> "settlementFailed", settlementId |-> id]
               /\ \E i \in 1..Len(settle.cancelCalls) :
                     settle.cancelCalls[i] = settle.settlements[id].buyOrder

\* A settlement that failed in its buy confirmation has had cancelOrder called.
C25_Counterexample ==
    (\E id \in 1..Len(settle.settlements) :
        settle.settlements[id].failedIn = "buyConfirmation")
        => settle.cancelCalls # << >>

\* C26: after any sequence of openPosition, closePosition and price-only
\* updatePosition calls, every open position has size (amount x entry price)
\* <= maxPositionSize, each exchange has at most maxPositionsPerExchange open
\* positions and the total exposure of the open positions is <=
\* maxTotalExposure; an openPosition that would break any of these returns
\* null and stores no position.
WithinLimits(pm) ==
    /\ \A id \in 1..Len(pm.positions) :
          pm.positions[id].status = "open"
              => pm.positions[id].amount * pm.positions[id].entryPrice
                     <= pm.config.maxPositionSize
    /\ \A exchange \in PositionExchanges :
          Cardinality(getOpenPositions(pm, exchange)) <= pm.config.maxPositionsPerExchange
    /\ getTotalExposure(pm) <= pm.config.maxTotalExposure

\* The manager with the position of params stored whatever the limits say.
Stored(pm, params) ==
    [pm EXCEPT !.positions = Append(@, [exchange |-> params.exchange, status |-> "open",
                                        amount |-> params.amount,
                                        entryPrice |-> params.price])]

Emitted(type, id, targetIndex) ==
    \E k \in 1..Len(positionManager.events) :
        positionManager.events[k] = [type |-> type, id |-> id, targetIndex |-> targetIndex]

C27_StopLossAtHalfPercent ==
    positionManager.last.op = "updatePosition"
        => LET position == positionManager.positions[positionManager.last.id]
           IN (/\ position.side = "buy"
               /\ positionManager.last.currentPrice * 1000 <= position.entryPrice * 995)
                 => Emitted("stopLossTriggered", position.id, 0)

\* The stop loss openPosition stores is the one orders/orderTracker.js computes,
\* 0.5% from the entry price.
C27_Counterexample ==
    \A id \in 1..Len(positionManager.positions) :
        positionManager.positions[id].stopLoss
            = Tracker_calculateStopLoss(positionManager.config,
                                        positionManager.positions[id].entryPrice,
                                        positionManager.positions[id].side)

\* C28: for each position and each take-profit target, takeProfitHit is emitted
\* at most once: once a target's hit flag is set by a price crossing, no later
\* position update clears it or emits the target again, in whichever direction
\* the price moves.
C28_TakeProfitSticky ==
    [][\A id \in 1..Len(positionManager.positions) : \A i \in 1..3 :
          positionManager.positions[id].takeProfitTargets[i].hit
              => /\ positionManager'.positions[id].takeProfitTargets[i].hit
                 /\ positionManager'.calls # positionManager.calls
                       => ~(\E k \in 1..Len(positionManager'.events) :
                               positionManager'.events[k]
                                   = [type |-> "takeProfitHit", id |-> id,
                                      targetIndex |-> i])]_vars

\* A target hit by an earlier update is crossed again by the last one.
C28_Witness ==
    /\ positionManager.last.op = "updatePosition"
    /\ LET position == positionManager.positions[positionManager.last.id]
       IN /\ position.side = "buy"
          /\ position.takeProfitTargets[1].hit
          /\ positionManager.last.currentPrice >= position.takeProfitTargets[1].price
          /\ ~Emitted("takeProfitHit", position.id, 1)

\* C29: a failure on one venue (stream error, disconnect, failed request)
\* never terminates the process: it is contained as an event or a state
\* change, and the process ends only on an initialization error or an explicit
\* shutdown signal.
C29_VenueFailureContained ==
    app.phase = "exited" => app.cause \in { "initialization", "SIGINT" }

\* With connectors registered, the process ends only on the shutdown signal.
C29_Counterexample ==
    (app.phase = "exited" /\ app.registered # {}) => app.cause = "SIGINT"

\* C30: an operation enqueued for a venue that has not completed when its
\* deadline passes is ended with a timeout outcome, so that it stops occupying
\* the venue's queue and operations queued behind it for that venue eventually
\* run.
C30_DeadlineEndsOperation ==
    \A id \in 1..Len(requestQueue.ops) :
        requestQueue.ops[id].aborted => requestQueue.ops[id].state = "timeout"

\* No operation waits behind operations whose deadline has passed.
C30_Counterexample ==
    \A exchange \in QueueExchanges :
        (/\ OpsOf(requestQueue, exchange, "running") # {}
         /\ \A id \in OpsOf(requestQueue, exchange, "running") :
               requestQueue.ops[id].aborted)
            => OpsOf(requestQueue, exchange, "queued") = {}

\* C31: an open breaker always gets its probe: once more than resetTimeout has
\* passed since the last failed venue request, the next fetchPrice call is let
\* through as a half-open probe, also when fetchPrice is called at intervals
\* shorter than resetTimeout while the breaker is open.
C31_OpenBreakerGetsProbe ==
    (fetcher.last = "rejected" /\ fetcher.venueFailure >= 0)
        => now - fetcher.venueFailure <= resetTimeout

\* A call rejected by the open breaker leaves the monitor's lastFailure at the
\* time of the last failed venue request.
C31_Counterexample ==
    fetcher.last = "rejected"
        => fetcher.monitor.lastFailure = fetcher.venueFailure

\* C34: for each venue at most one reconnection attempt is pending at any
\* time: a heartbeat failure followed by the close of the same socket
\* schedules one reconnection, not two.
C34_OneReconnectionPending ==
    Cardinality(wsm.timers) <= 1

\* The close of a socket whose heartbeat failure already scheduled a
\* reconnection schedules none.
C34_Counterexample ==
    [][\A id \in DOMAIN wsm.sockets :
          (wsm.timers # {} /\ id \notin DOMAIN wsm'.sockets)
              => wsm'.timers \subseteq wsm.timers]_vars

\* C35: after disconnect is called for a venue, no reconnection to that venue
\* is attempted until connect is called again by the caller.
C35_NoReconnectAfterDisconnect ==
    [][wsm.disconnected => wsm'.created = wsm.created]_vars

\* After disconnect no reconnection is pending.
C35_Counterexample ==
    wsm.disconnected => wsm.timers = {}

\* C32: every stream failure is eventually followed by a successful
\* reconnection or by the maxReconnectAttempts escalation: the reconnection
\* loop never stops silently with attempts remaining, also when the venue's
\* circuit breaker is open at the moment an attempt falls due.  A loop that has
\* stopped has no socket and no reconnection pending.
C32_ReconnectionNeverStopsSilently ==
    (/\ wsm.created > 0 /\ ~wsm.disconnected
     /\ wsm.sockets = << >> /\ wsm.timers = {})
        => wsm.raised > 0

\* Every reconnection attempt that falls due opens a socket.
C32_Counterexample ==
    [][wsm'.reconnectAttempts > wsm.reconnectAttempts
          => wsm'.created > wsm.created]_vars

\* C33: the expiry timer started for one reservation never removes a different
\* reservation: a reservation made again under the same venue, currency and
\* order id after the first one was released or overwritten is removed only by
\* the timer that was started when it was made itself.
C33_TimerRemovesOwnReservationOnly ==
    [][_setReserveTimeout =>
          \A rk \in DOMAIN reservedBalances \ DOMAIN reservedBalances' :
              Head(reserveTimers).due - reserveTimeoutMs
                  = reservedBalances[rk].timestamp]_vars

\* No live reservation has a timer pending under its key that was started
\* before the reservation was made.
C33_Counterexample ==
    \A rk \in DOMAIN reservedBalances :
        \A i \in 1..Len(reserveTimers) :
            reserveTimers[i].reserveKey = rk
                => reserveTimers[i].due - reserveTimeoutMs
                      >= reservedBalances[rk].timestamp

\* C36: once executeArbitrage has returned for an execution, with a result or
\* with null, no stageTimeout, executionWarning or executionTimeout event is
\* emitted for that execution afterwards.
C36_NoTimerEventAfterReturn ==
    [][\A e \in ExecutionIds, kind \in TimerKinds :
          (atomic[e].pc = "done" /\ ExecutionTimer_fire(e, kind))
              => TimerEvents(e, kind) = {}]_vars

\* An execution that has returned has left no entry in the timer's map for
\* its pending callbacks to act on.
C36_Counterexample ==
    \A e \in ExecutionIds :
        (atomic[e].pc = "done" /\ \E kind \in TimerKinds : <<e, kind>> \in timerCallbacks)
            => e \notin DOMAIN timeouts

\* The positions that closePosition has closed.
Closed == { id \in 1..Len(positionManager.positions) :
              positionManager.positions[id].status = "closed" }

\* C37: closing a position is final: after closePosition has succeeded for a
\* position, no later closePosition or updatePosition call changes its status
\* or its realizedPnL, or emits a further positionClosed, stopLossTriggered or
\* takeProfitHit event for it.
C37_ClosingIsFinal ==
    [][\A id \in Closed :
          /\ positionManager'.positions[id].status = "closed"
          /\ positionManager'.positions[id].realizedPnL
                = positionManager.positions[id].realizedPnL
          /\ \A k \in 1..Len(positionManager'.events) :
                positionManager'.events[k].id = id
                    => positionManager'.events[k].type
                          \notin {"positionClosed", "stopLossTriggered", "takeProfitHit"}]_vars

\* The realizedPnL and the exitPrice of a closed position never change.
C37_Counterexample ==
    [][\A id \in Closed :
          /\ positionManager'.positions[id].realizedPnL
                = positionManager.positions[id].realizedPnL
          /\ positionManager'.positions[id].exitPrice
                = positionManager.positions[id].exitPrice]_vars

\* C38: a pooled connection is never held by two callers at once: between an
\* acquire that returns a connection and the matching release no other acquire
\* returns that same connection, under any interleaving of acquire and release,
\* including the hand-off of a released connection to a queued waiter.
C38_OneHolderPerConnection ==
    \A c1 \in Callers, c2 \in Callers :
        (/\ c1 # c2
         /\ pool.callers[c1].pc = "holding"
         /\ pool.callers[c2].pc = "holding")
            => pool.callers[c1].connection # pool.callers[c2].connection

\* A connection on its way to a caller whose acquire has not returned yet is
\* marked in use, so that no other acquire can take it.
C38_Counterexample ==
    \A c \in Callers :
        pool.callers[c].pc = "resumed" => pool.objects[pool.callers[c].connection].inUse

\* C39: a venue marked degraded returns to healthy only after
\* recoveryThreshold (3) consecutive successes recorded since it became
\* degraded; successes recorded before the degradation do not count.
C39_RecoveryNeedsFreshSuccesses ==
    [][\A x \in HealthExchanges :
          (/\ healthMonitor.health[x].state = "degraded"
           /\ healthMonitor'.health[x].state = "healthy")
              => healthMonitor'.sinceDegraded[x] >= recoveryThreshold]_vars

\* The success count of a degraded venue counts the successes recorded since
\* it became degraded.
C39_Counterexample ==
    \A x \in HealthExchanges :
        healthMonitor.health[x].state = "degraded"
            => healthMonitor.health[x].successCount = healthMonitor.sinceDegraded[x]

Breached(type) ==
    \E k \in 1..Len(riskLimits.breaches) : riskLimits.breaches[k].type = type

\* C40: updateMetrics emits limitBreached for exposure (respectively loss)
\* only when the accumulated daily exposure (respectively daily loss) exceeds
\* the configured daily limit; a day total within the daily limit raises no
\* breach.
C40_BreachOnlyAboveDailyLimit ==
    /\ Breached("exposure")
          => riskLimits.currentMetrics.dailyExposure.value > maxDailyExposure
    /\ Breached("loss") => riskLimits.currentMetrics.dailyLoss.value > maxDailyLoss

\* The totals that the breach checks compare with the daily limits are the
\* accumulated day totals: a breach for the daily limit names a total above it.
C40_Counterexample ==
    \A k \in 1..Len(riskLimits.breaches) :
        LET breach == riskLimits.breaches[k]
        IN /\ breach.reason = "Daily exposure limit exceeded"
                => breach.value > maxDailyExposure
           /\ breach.reason = "Daily loss limit exceeded"
                => breach.value > maxDailyLoss

====
